---- MODULE Spec2Model ----
(***************************************************************************)
(* ChatterLine: the backend call orchestrator (scheduled-call registry,    *)
(* minute sweep, call pipeline), the conversational session service and    *)
(* the client retry policy, as state machines.                             *)
(***************************************************************************)
EXTENDS Integers, Sequences, FiniteSets, TLC

VARIABLES
    now,            \* the server clock (what new Date() reads)
    scheduledCalls, \* app.ts: Map<string, ScheduledCall>, keyed by call id
    nextId,         \* ids handed out so far by generateCallId, plus one
    procs,          \* the asynchronous runs in flight (sweeps, triggers, chats)
    sessions,       \* chatgpt.ts: Record<string, Message[]>
    dialed,         \* per call id: how often callClient.calls.create was invoked
    req,            \* the HTTP request answered in this step, if any
    res,            \* the HTTP response sent in this step, if any
    variant,        \* which chatWithSession the build holds: "plain" | "context"
    rt,             \* one withRetry invocation of the client API layer
    twiml,          \* the answer to the latest POST /handle-speech request
    pu,             \* one call of a client provider utility or AI scheduling method
    store,          \* the Call Store: events, sessions, currentSession
    storeOp,        \* the latest Call Store operation and what it returned
    hook,           \* the Call Metrics hook: its state and the messages recorded
    modal,          \* the four-step modal wizard of the scheduler screen
    wizard,         \* the five-step scheduling wizard
    screen          \* the Call Screen: its state and its running handlers

\* The state of the client application.
clientVars == <<pu, store, storeOp, hook, modal, wizard, screen>>

\* The state of the backend.
serverVars ==
    <<now, scheduledCalls, nextId, procs, sessions, dialed, req, res, variant, twiml>>

vars == <<now, scheduledCalls, nextId, procs, sessions, dialed, req, res, variant, rt,
          twiml, clientVars>>

----------------------------------------------------------------------------
(* Bounds of the model *)

MaxTime == 1
MaxCalls == 1
MaxProcs == 1
MaxDigits == 11
MaxRetriesArg == 5
MaxTurns == 2
MaxSessions == 2
MaxMessages == 2
\* playText calls made on the audio player
MaxPlays == 2
MaxEvents == 2
MaxRecorded == 2

----------------------------------------------------------------------------
(* Values *)

Unset == <<>>
IsSet(x) == x # Unset

\* A JavaScript Date: an invalid Date holds NaN.
ValidDate(t) == [valid |-> TRUE, t |-> t]
InvalidDate == [valid |-> FALSE, t |-> 0]

\* Date <= Date compares the time values; any comparison with NaN is false.
DateLE(a, b) == a.valid /\ b.valid /\ a.t <= b.t

\* The scheduledDateTime of a request body: absent, a parseable date string,
\* or a string Date cannot parse.
NoDateTime == [kind |-> "missing", t |-> 0]
IsoDateTime(t) == [kind |-> "iso", t |-> t]
GarbageDateTime == [kind |-> "garbage", t |-> 0]

\* new Date(scheduledDateTime)
NewDate(s) == IF s.kind = "iso" THEN ValidDate(s.t) ELSE InvalidDate

----------------------------------------------------------------------------
(* The phone pattern /^\+1\d{10}$/, matched as a regular expression engine  *)
(* does: token by token from the anchored start to the anchored end.        *)

Digit == {"0", "1", "2", "3", "4", "5", "6", "7", "8", "9"}

Lit(c) == [kind |-> "lit", c |-> c, n |-> 1]
DigitRun(n) == [kind |-> "digit", c |-> "", n |-> n]

TokenMatches(tok, ch) == IF tok.kind = "lit" THEN ch = tok.c ELSE ch \in Digit

RECURSIVE MatchTokens(_, _, _, _, _)
\* The position after matching tokens[j..] (k repetitions of token j done)
\* from position i of s, or 0 when the match fails.
MatchTokens(tokens, j, k, s, i) ==
    IF j > Len(tokens) THEN i
    ELSE IF k = tokens[j].n THEN MatchTokens(tokens, j + 1, 0, s, i)
    ELSE IF i > Len(s) THEN 0
    ELSE IF TokenMatches(tokens[j], s[i]) THEN MatchTokens(tokens, j, k + 1, s, i + 1)
    ELSE 0

\* regex.test(s) for a pattern of tokens with optional ^ and $ anchors.
RegexTest(tokens, anchorStart, anchorEnd, s) ==
    \E i \in 1..(Len(s) + 1) :
        /\ anchorStart => i = 1
        /\ LET e == MatchTokens(tokens, 1, 0, s, i)
           IN  e # 0 /\ (anchorEnd => e = Len(s) + 1)

phoneTokens == <<Lit("+"), Lit("1"), DigitRun(10)>>

phoneRegexNoEndAnchor(s) == RegexTest(phoneTokens, TRUE, FALSE, s)

phoneRegexTest(s) == RegexTest(phoneTokens, TRUE, TRUE, s)

----------------------------------------------------------------------------
(* Conversational session service (chatgpt.ts) *)

ScriptSession == "script_generation"

FollowUp == "Can you confirm if there are any available time slots next week?"

\* The seeded system message of a first-use session.
SystemMessage(sessionId, userdata) ==
    [role |-> "system",
     content |-> IF variant = "plain" THEN <<"You are a helpful assistant.">>
                 ELSE <<"You are a now connected to a call", userdata>>,
     under |-> sessionId]

Message(role, content, sessionId) ==
    [role |-> role, content |-> content, under |-> sessionId]

SessionKeyShared(sessionId) == "1"

\* The key of the sessions record that sessions[sessionId] reads and writes.
SessionKey(sessionId) == sessionId

getOrCreateSessionReseed(ss, sessionId, userdata) ==
    [k \in DOMAIN ss \cup {SessionKey(sessionId)} |->
        IF k = SessionKey(sessionId) THEN <<SystemMessage(sessionId, userdata)>>
        ELSE ss[k]]

\* getOrCreateSession: the store after the call; the array it returns is the
\* one under SessionKey(sessionId).
getOrCreateSession(ss, sessionId, userdata) ==
    IF SessionKey(sessionId) \in DOMAIN ss THEN ss
    ELSE [k \in DOMAIN ss \cup {SessionKey(sessionId)} |->
            IF k = SessionKey(sessionId) THEN <<SystemMessage(sessionId, userdata)>>
            ELSE ss[k]]

PushUnshift(ss, sessionId, m) == [ss EXCEPT ![SessionKey(sessionId)] = <<m>> \o @]

\* messages.push(m) on the array of session sessionId.
Push(ss, sessionId, m) == [ss EXCEPT ![SessionKey(sessionId)] = Append(@, m)]

\* chatWithSession up to its first await: the session is fetched or created
\* and the user turn appended.
ChatBegin(ss, sessionId, userMessage, userdata) ==
    Push(getOrCreateSession(ss, sessionId, userdata), sessionId,
         Message("user", userMessage, sessionId))

\* The first completion returned: the assistant turn is appended; the plain
\* variant appends its fixed follow-up user turn and asks again.
ChatAfterFirst(ss, sessionId, content) ==
    LET s1 == Push(ss, sessionId, Message("assistant", content, sessionId))
    IN  IF variant = "plain"
        THEN Push(s1, sessionId, Message("user", <<FollowUp>>, sessionId))
        ELSE s1

\* The follow-up completion returned (plain variant).
ChatAfterSecond(ss, sessionId, content) ==
    Push(ss, sessionId, Message("assistant", content, sessionId))

----------------------------------------------------------------------------
(* Asynchronous runs *)

ProcIds == 1..MaxProcs

\* A handler that starts runs in the first free slot (the slots are
\* interchangeable).
FreeSlot(p) == procs[p].kind = "idle" /\ \A q \in 1..(p - 1) : procs[q].kind # "idle"

IdleProc ==
    [kind |-> "idle", pc |-> "idle", call |-> 0, sid |-> "", swNow |-> 0,
     first |-> <<>>]

\* req: the request received in this step; res: the response sent in this
\* step (the trigger handler answers in a later step than it receives).
NoReq == [op |-> "none", id |-> 0, body |-> <<>>]
NoRes == [code |-> 0, error |-> "", status |-> "", ids |-> {}]

Answer(code, error) == [code |-> code, error |-> error, status |-> "", ids |-> {}]

----------------------------------------------------------------------------
(* Scheduled-call registry and pipeline (app.ts) *)

CallIds == 1..MaxCalls

MissingFieldsError == "Missing required fields: phoneNumber, userInfo, callPurpose, scheduledDateTime"
InvalidPhoneError == "Invalid phone number format. Use +1XXXXXXXXXX"
NotFutureError == "Scheduled time must be in the future"
ScheduleFailedError == "Failed to schedule call"
NotFoundError == "Call not found"
ProcessingError == "Cannot delete call that is currently being processed"
NotPendingError == "Call is not in pending status"

\* The ScheduledCall stored by POST /schedule-call.
NewScheduledCall(phoneNumber, userInfo, callPurpose, scheduleDate) ==
    [phoneNumber |-> phoneNumber, userInfo |-> userInfo, callPurpose |-> callPurpose,
     scheduledDateTime |-> scheduleDate, status |-> "pending",
     script |-> Unset, audioBuffer |-> Unset, callSid |-> Unset]

\* if (scheduleDate <= new Date()): the request is refused as not in the future.
NotInFuture(scheduleDate, current) == DateLE(scheduleDate, current)

\* The prompt generateCallScript builds from the call's user info and purpose.
ScriptPrompt(call) == <<"Create a professional phone call script", call.userInfo, call.callPurpose>>

SetMin(S) == CHOOSE x \in S : \A y \in S : x <= y

IsDueStrict(call, at) ==
    call.status = "pending" /\ call.scheduledDateTime.valid /\ at.valid
        /\ call.scheduledDateTime.t < at.t

\* The sweep's test of one registry entry.
IsDue(call, at) == call.status = "pending" /\ DateLE(call.scheduledDateTime, at)

\* The Map iterator of the sweep: the first entry after `cursor`, in insertion
\* order (ids are handed out in increasing order), that the sweep processes;
\* 0 when the iteration ends without one.
NextDue(calls, cursor, at) ==
    LET due == {id \in DOMAIN calls : id > cursor /\ IsDue(calls[id], at)}
    IN  IF due = {} THEN 0 ELSE SetMin(due)

MarkNothing(calls, id) == calls

MarkCompleted(calls, id) == [calls EXCEPT ![id].status = "completed"]

\* processScheduledCall, first statement: callData.status = "processing".
MarkProcessing(calls, id) == [calls EXCEPT ![id].status = "processing"]

\* The catch block of processScheduledCall.
MarkFailed(calls, id) == [calls EXCEPT ![id].status = "failed"]

\* processScheduledCall up to its first await, run by `p` for call `id`.
Enter(p, kind, id, at, calls, ss) ==
    /\ scheduledCalls' = MarkProcessing(calls, id)
    /\ sessions' = ChatBegin(ss, ScriptSession, ScriptPrompt(calls[id]), <<>>)
    /\ procs' = [procs EXCEPT ![p] =
                    [kind |-> kind, pc |-> "chat1", call |-> id, sid |-> ScriptSession,
                     swNow |-> at, first |-> <<>>]]

\* What follows `await processScheduledCall(...)` in the caller: the trigger
\* handler answers 200 with the status; the sweep goes on iterating.
Leave(p, calls, ss) ==
    IF procs[p].kind = "trigger"
    THEN /\ scheduledCalls' = calls
         /\ sessions' = ss
         /\ procs' = [procs EXCEPT ![p] = IdleProc]
         /\ req' = NoReq
         /\ res' = [code |-> 200, error |-> "", status |-> calls[procs[p].call].status,
                    ids |-> {procs[p].call}]
    ELSE /\ req' = NoReq
         /\ res' = NoRes
         /\ LET target == NextDue(calls, procs[p].call, ValidDate(procs[p].swNow))
            IN  IF target = 0
                THEN /\ scheduledCalls' = calls
                     /\ sessions' = ss
                     /\ procs' = [procs EXCEPT ![p] = IdleProc]
                ELSE Enter(p, "sweep", target, procs[p].swNow, calls, ss)

----------------------------------------------------------------------------
(* Backend operations *)

backendIdle == UNCHANGED <<variant, rt, twiml, clientVars>>

\* One millisecond-or-more of wall time passes.
Tick ==
    /\ now < MaxTime
    /\ now' = now + 1
    /\ req' = NoReq
    /\ res' = NoRes
    /\ UNCHANGED <<scheduledCalls, nextId, procs, sessions, dialed>>
    /\ backendIdle

\* POST /schedule-call
ScheduleCall(phoneNumber, userInfo, callPurpose, scheduledDateTime) ==
    /\ req' = [op |-> "POST /schedule-call", id |-> 0,
               body |-> [phoneNumber |-> phoneNumber, userInfo |-> userInfo,
                         callPurpose |-> callPurpose,
                         scheduledDateTime |-> scheduledDateTime]]
    /\ IF phoneNumber = <<>> \/ userInfo = "" \/ callPurpose = ""
            \/ scheduledDateTime.kind = "missing"
       THEN /\ res' = Answer(400, MissingFieldsError)
            /\ UNCHANGED <<scheduledCalls, nextId>>
       ELSE IF ~phoneRegexTest(phoneNumber)
       THEN /\ res' = Answer(400, InvalidPhoneError)
            /\ UNCHANGED <<scheduledCalls, nextId>>
       ELSE LET scheduleDate == NewDate(scheduledDateTime)
            IN  IF NotInFuture(scheduleDate, ValidDate(now))
                THEN /\ res' = Answer(400, NotFutureError)
                     /\ UNCHANGED <<scheduledCalls, nextId>>
                ELSE /\ nextId <= MaxCalls
                     /\ scheduledCalls' =
                            [id \in DOMAIN scheduledCalls \cup {nextId} |->
                                IF id = nextId
                                THEN NewScheduledCall(phoneNumber, userInfo, callPurpose,
                                                      scheduleDate)
                                ELSE scheduledCalls[id]]
                     /\ nextId' = nextId + 1
                     \* scheduleDate.toISOString() throws a RangeError on an
                     \* invalid Date, after the call was stored: the catch
                     \* block answers 500.
                     /\ res' = IF scheduleDate.valid
                               THEN [code |-> 201, error |-> "", status |-> "pending",
                                     ids |-> {nextId}]
                               ELSE Answer(500, ScheduleFailedError)
    /\ UNCHANGED <<now, procs, sessions, dialed>>
    /\ backendIdle

\* GET /scheduled-calls
ListScheduledCalls ==
    /\ req' = [op |-> "GET /scheduled-calls", id |-> 0, body |-> <<>>]
    /\ res' = [code |-> 200, error |-> "", status |-> "", ids |-> DOMAIN scheduledCalls]
    /\ UNCHANGED <<now, scheduledCalls, nextId, procs, sessions, dialed>>
    /\ backendIdle

\* GET /scheduled-calls/:id
GetScheduledCall(id) ==
    /\ req' = [op |-> "GET /scheduled-calls/:id", id |-> id, body |-> <<>>]
    /\ res' = IF id \notin DOMAIN scheduledCalls
              THEN Answer(404, NotFoundError)
              ELSE [code |-> 200, error |-> "", status |-> scheduledCalls[id].status,
                    ids |-> {id}]
    /\ UNCHANGED <<now, scheduledCalls, nextId, procs, sessions, dialed>>
    /\ backendIdle

DeleteRefusedNever(call) == FALSE

\* DELETE /scheduled-calls/:id refuses a call that is being processed.
DeleteRefused(call) == call.status = "processing"

\* DELETE /scheduled-calls/:id
DeleteScheduledCall(id) ==
    /\ req' = [op |-> "DELETE /scheduled-calls/:id", id |-> id, body |-> <<>>]
    /\ IF id \notin DOMAIN scheduledCalls
       THEN res' = Answer(404, NotFoundError) /\ UNCHANGED scheduledCalls
       ELSE IF DeleteRefused(scheduledCalls[id])
       THEN res' = Answer(400, ProcessingError) /\ UNCHANGED scheduledCalls
       ELSE /\ scheduledCalls' = [i \in DOMAIN scheduledCalls \ {id} |-> scheduledCalls[i]]
            /\ res' = Answer(200, "")
    /\ UNCHANGED <<now, nextId, procs, sessions, dialed>>
    /\ backendIdle

TriggerRefusedNever(call) == FALSE

\* POST /scheduled-calls/:id/trigger refuses a call that is not pending.
TriggerRefused(call) == call.status # "pending"

\* POST /scheduled-calls/:id/trigger, up to its first await
TriggerScheduledCall(p, id) ==
    /\ IF id \notin DOMAIN scheduledCalls
       THEN /\ req' = [op |-> "POST /scheduled-calls/:id/trigger", id |-> id, body |-> <<>>]
            /\ res' = Answer(404, NotFoundError)
            /\ UNCHANGED <<scheduledCalls, procs, sessions>>
       ELSE IF TriggerRefused(scheduledCalls[id])
       THEN /\ req' = [op |-> "POST /scheduled-calls/:id/trigger", id |-> id, body |-> <<>>]
            /\ res' = Answer(400, NotPendingError)
            /\ UNCHANGED <<scheduledCalls, procs, sessions>>
       ELSE /\ req' = [op |-> "POST /scheduled-calls/:id/trigger", id |-> id, body |-> <<>>]
            /\ res' = NoRes
            /\ FreeSlot(p)
            /\ Enter(p, "trigger", id, 0, scheduledCalls, sessions)
    /\ UNCHANGED <<now, nextId, dialed>>
    /\ backendIdle

\* The cron callback fires: it iterates the registry until its first await.
CronSweep(p) ==
    /\ FreeSlot(p)
    /\ LET target == NextDue(scheduledCalls, 0, ValidDate(now))
       IN  IF target = 0
           THEN UNCHANGED <<scheduledCalls, procs, sessions>>
           ELSE Enter(p, "sweep", target, now, scheduledCalls, sessions)
    /\ req' = NoReq
    /\ res' = NoRes
    /\ UNCHANGED <<now, nextId, dialed>>
    /\ backendIdle

\* chatWithSession has returned `value` to the run `p`.
ChatReturned(p, ss, value) ==
    IF procs[p].kind = "chat"
    THEN /\ sessions' = ss
         /\ procs' = [procs EXCEPT ![p] = IdleProc]
         /\ req' = NoReq
         /\ res' = [code |-> 200, error |-> "", status |-> "returned", ids |-> {}]
         /\ UNCHANGED <<scheduledCalls, dialed>>
    ELSE \* generateCallScript returns the script; callData.script = script;
         \* generateAudioFromScript is called and awaited.
         /\ sessions' = ss
         /\ scheduledCalls' = [scheduledCalls EXCEPT ![procs[p].call].script = value]
         /\ procs' = [procs EXCEPT ![p].pc = "audio"]
         /\ req' = NoReq
         /\ res' = NoRes
         /\ UNCHANGED dialed

\* The chat-completion provider answers the pending request of run `p`
\* with `content` (a null content would be read as '').
Completion(p, content) ==
    /\ procs[p].pc \in {"chat1", "chat2"}
    /\ procs[p].kind # "speech"
    /\ IF procs[p].pc = "chat1"
       THEN LET ss == ChatAfterFirst(sessions, procs[p].sid, content)
            IN  IF variant = "plain"
                THEN /\ sessions' = ss
                     /\ procs' = [procs EXCEPT ![p].pc = "chat2", ![p].first = content]
                     /\ req' = NoReq
                     /\ res' = NoRes
                     /\ UNCHANGED <<scheduledCalls, dialed>>
                ELSE ChatReturned(p, ss, <<content>>)
       ELSE ChatReturned(p, ChatAfterSecond(sessions, procs[p].sid, content),
                         <<procs[p].first, content>>)
    /\ UNCHANGED <<now, nextId>>
    /\ backendIdle

\* The chat-completion request of run `p` fails: chatWithSession throws.  In
\* the pipeline generateCallScript rethrows and processScheduledCall's catch
\* block marks the call failed.
CompletionFails(p) ==
    /\ procs[p].pc \in {"chat1", "chat2"}
    /\ procs[p].kind # "speech"
    /\ IF procs[p].kind = "chat"
       THEN /\ procs' = [procs EXCEPT ![p] = IdleProc]
            /\ req' = NoReq
            /\ res' = [code |-> 500, error |-> "", status |-> "thrown", ids |-> {}]
            /\ UNCHANGED <<scheduledCalls, sessions>>
       ELSE Leave(p, MarkFailed(scheduledCalls, procs[p].call), sessions)
    /\ UNCHANGED <<now, nextId, dialed>>
    /\ backendIdle

\* get_audio and streamToBuffer deliver the audio: callData.audioBuffer is
\* set and callClient.calls.create is invoked.
AudioReady(p) ==
    /\ procs[p].pc = "audio"
    /\ scheduledCalls' = [scheduledCalls EXCEPT ![procs[p].call].audioBuffer = <<"audio">>]
    /\ dialed' = [dialed EXCEPT ![procs[p].call] = @ + 1]
    /\ procs' = [procs EXCEPT ![p].pc = "dial"]
    /\ req' = NoReq
    /\ res' = NoRes
    /\ UNCHANGED <<now, nextId, sessions>>
    /\ backendIdle

\* Voice synthesis (or reading its stream) fails.
AudioFails(p) ==
    /\ procs[p].pc = "audio"
    /\ Leave(p, MarkFailed(scheduledCalls, procs[p].call), sessions)
    /\ UNCHANGED <<now, nextId, dialed>>
    /\ backendIdle

\* The telephony provider accepts the call: callSid and status completed.
CallCreated(p) ==
    /\ procs[p].pc = "dial"
    /\ Leave(p, [scheduledCalls EXCEPT ![procs[p].call].callSid = <<"CA", procs[p].call>>,
                                       ![procs[p].call].status = "completed"],
             sessions)
    /\ UNCHANGED <<now, nextId, dialed>>
    /\ backendIdle

\* The telephony provider refuses the call.
CallCreateFails(p) ==
    /\ procs[p].pc = "dial"
    /\ Leave(p, MarkFailed(scheduledCalls, procs[p].call), sessions)
    /\ UNCHANGED <<now, nextId, dialed>>
    /\ backendIdle

----------------------------------------------------------------------------
(* The backend orchestrator *)

ValidPhone == <<"+", "1", "2", "0", "2", "5", "5", "5", "1", "2", "3", "4">>

Purposes == {"book a table"}

DateTimeInputs == {IsoDateTime(t) : t \in 0..MaxTime} \cup {GarbageDateTime}

NoRetry ==
    [pc |-> "idle", retries |-> 0, attempt |-> 0, calls |-> 0, delays |-> <<>>,
     errors |-> <<>>, thrown |-> <<>>]

\* No handle-speech request has been received.
NoMarkup == [state |-> "none", say |-> <<>>, redirect |-> ""]

\* No provider utility has been called.
NoProviderCall ==
    [entry |-> "", fn |-> "", requestedTime |-> 0, outcomes |-> <<>>, pc |-> "idle",
     result |-> <<>>]

\* The Call Store as created: no events, no sessions, no current session
\* (null is the empty tuple); made counts the ids handed out.
EmptyStore == [events |-> <<>>, sessions |-> <<>>, currentSession |-> <<>>, made |-> 0]

\* No store operation has been invoked; `added` lists the messages passed to
\* addMessage since the latest startSession.
NoStoreOp == [name |-> "", result |-> <<>>, added |-> <<>>]

\* useState's initial metrics, with startTime = new Date() read at `at`.
FreshMetrics(at) ==
    [startTime |-> at, responseStartTime |-> <<>>, totalWords |-> 0,
     totalCharacters |-> 0, responseTimes |-> <<>>, sentimentScores |-> <<>>,
     messageCount |-> 0]

\* The hook as mounted at `at`; `recorded` lists the messages passed to
\* recordMessage since the mount or the latest resetMetrics.
FreshHook(at) == [metrics |-> FreshMetrics(at), lastMessageTime |-> at, recorded |-> <<>>]

\* The form of the four-step modal wizard as resetForm leaves it (the fields
\* the wizard validates or schedules by).
ModalForm ==
    [taskTitle |-> "", taskDescription |-> "", recipientName |-> "",
     recipientPhone |-> <<>>, callTime |-> "09:00"]

\* The scheduler screen as mounted on day `day`; `alert` is the latest dialog.
FreshModal(day) ==
    [visible |-> FALSE, modalStep |-> "task", formData |-> ModalForm, selectedDate |-> day,
     profile |-> FALSE, pc |-> "idle", alert |-> ""]

\* The form of the five-step wizard with scheduledDate = new Date() read at
\* `at`.
WizardForm(at) ==
    [title |-> <<>>, scheduledDate |-> [isDate |-> TRUE, t |-> at],
     voicePersona |-> "friendly", selectedProfileFields |-> {},
     additionalData |-> [phone |-> ""]]

\* The five-step wizard as mounted at `at`.
FreshWizard(at) ==
    [currentStep |-> 0, formData |-> WizardForm(at), errors |-> {}, isSubmitting |-> FALSE,
     showSuccessModal |-> FALSE, alert |-> "", pc |-> "idle"]

\* A handler of the Call Screen that is not running; `threw` tells whether an
\* operation the latest run awaited has thrown, `seen` holds what the run
\* read when it began.
NoRun == [pc |-> "idle", threw |-> FALSE, seen |-> <<>>]

\* A playText call at its first await: `sound` is the state of the
\* Audio.Sound it creates, `early` whether a stopAudio completed after the
\* call was made.
NewPlay == [pc |-> "impact", sound |-> "none", early |-> FALSE]

\* useExpoAudioPlayer as mounted: its state (currentSound names the playText
\* call that created the sound, 0 for null), the playText calls made so far
\* and its stopAudio call.
FreshPlayer ==
    [state |-> [isPlaying |-> FALSE, isLoading |-> FALSE, currentSound |-> 0],
     plays |-> <<>>,
     stop |-> [pc |-> "idle", sound |-> 0]]

\* The Call Screen as mounted; `alert` is the latest dialog and `unhandled`
\* the handlers out of which a rejection has propagated.
FreshScreen ==
    [profile |-> FALSE, isCallActive |-> FALSE, isProcessing |-> FALSE,
     callStartTime |-> <<>>, alert |-> "", unhandled |-> {},
     startCall |-> NoRun, sendTestMessage |-> NoRun, endCall |-> NoRun,
     player |-> FreshPlayer]

\* The client application right after start.
ClientInit ==
    /\ pu = NoProviderCall
    /\ store = EmptyStore
    /\ storeOp = NoStoreOp
    /\ hook = FreshHook(0)
    /\ modal = FreshModal(0)
    /\ wizard = FreshWizard(0)
    /\ screen = FreshScreen

Init ==
    /\ now = 0
    /\ scheduledCalls = <<>>
    /\ nextId = 1
    /\ procs = [p \in ProcIds |-> IdleProc]
    /\ sessions = <<>>
    /\ dialed = [id \in CallIds |-> 0]
    /\ req = NoReq
    /\ res = NoRes
    /\ variant = "plain"
    /\ rt = NoRetry
    /\ twiml = NoMarkup
    /\ ClientInit

Next ==
    \/ Tick
    \/ \E purpose \in Purposes, sdt \in DateTimeInputs :
            ScheduleCall(ValidPhone, "Ada", purpose, sdt)
    \/ ListScheduledCalls
    \/ \E id \in CallIds : GetScheduledCall(id)
    \/ \E id \in CallIds : DeleteScheduledCall(id)
    \/ \E p \in ProcIds, id \in CallIds : TriggerScheduledCall(p, id)
    \/ \E p \in ProcIds : CronSweep(p)
    \/ \E p \in ProcIds : Completion(p, "reply")
    \/ \E p \in ProcIds : CompletionFails(p)
    \/ \E p \in ProcIds : AudioReady(p)
    \/ \E p \in ProcIds : AudioFails(p)
    \/ \E p \in ProcIds : CallCreated(p)
    \/ \E p \in ProcIds : CallCreateFails(p)

Spec == Init /\ [][Next]_vars

\* The requests and steps that write the registry or move a run: the two GET
\* requests change req and res alone.
FairNext ==
    \/ Tick
    \/ \E purpose \in Purposes, sdt \in DateTimeInputs :
            ScheduleCall(ValidPhone, "Ada", purpose, sdt)
    \/ \E id \in CallIds : DeleteScheduledCall(id)
    \/ \E p \in ProcIds, id \in CallIds : TriggerScheduledCall(p, id)
    \/ \E p \in ProcIds : CronSweep(p)
    \/ \E p \in ProcIds : Completion(p, "reply")
    \/ \E p \in ProcIds : CompletionFails(p)
    \/ \E p \in ProcIds : AudioReady(p)
    \/ \E p \in ProcIds : AudioFails(p)
    \/ \E p \in ProcIds : CallCreated(p)
    \/ \E p \in ProcIds : CallCreateFails(p)

\* The scheduling the runtime guarantees: the cron callback keeps firing and
\* every provider request is answered or fails.
FairSpec ==
    /\ Init /\ [][FairNext]_vars
    /\ WF_vars(\E p \in ProcIds : CronSweep(p))
    /\ \A p \in ProcIds :
        /\ WF_vars(Completion(p, "reply") \/ CompletionFails(p))
        /\ WF_vars(AudioReady(p) \/ AudioFails(p))
        /\ WF_vars(CallCreated(p) \/ CallCreateFails(p))

----------------------------------------------------------------------------
(* Scheduled-call lifecycle *)

StatusSteps ==
    {<<"pending", "processing">>, <<"processing", "completed">>,
     <<"processing", "failed">>}

\* C1: a call enters the registry as pending; its status only ever moves
\* pending -> processing, processing -> completed or processing -> failed, so a
\* completed or failed call never changes status again.
C1_StatusLifecycle ==
    [][\A id \in CallIds :
        /\ (id \notin DOMAIN scheduledCalls /\ id \in DOMAIN scheduledCalls')
                => scheduledCalls'[id].status = "pending"
        /\ (id \in DOMAIN scheduledCalls /\ id \in DOMAIN scheduledCalls'
                /\ scheduledCalls'[id].status # scheduledCalls[id].status)
                => <<scheduledCalls[id].status, scheduledCalls'[id].status>> \in StatusSteps
      ]_vars

C1_Witness ==
    \E id \in DOMAIN scheduledCalls :
        scheduledCalls[id].status = "completed" /\ dialed[id] = 1

DeleteOp == "DELETE /scheduled-calls/:id"
TriggerOp == "POST /scheduled-calls/:id/trigger"

\* C2: DELETE of a processing call is answered 400 and the call stays; a
\* trigger of a call that is not pending is answered 400 and starts no run;
\* DELETE of a pending, completed or failed call removes it, a removed id
\* never returns, and listings and lookups show exactly the registered ids
\* (a lookup of an absent id answers 404).
C2_DeleteAndTriggerGuards ==
    [][\A id \in CallIds :
        /\ (req'.op = DeleteOp /\ req'.id = id /\ id \in DOMAIN scheduledCalls)
            => IF scheduledCalls[id].status = "processing"
               THEN res'.code = 400 /\ scheduledCalls' = scheduledCalls
               ELSE res'.code = 200 /\ id \notin DOMAIN scheduledCalls'
        /\ (req'.op = TriggerOp /\ req'.id = id /\ id \in DOMAIN scheduledCalls
                /\ scheduledCalls[id].status # "pending")
            => /\ res'.code = 400
               /\ UNCHANGED <<scheduledCalls, procs, sessions, dialed>>
        /\ (id < nextId /\ id \notin DOMAIN scheduledCalls)
            => id \notin DOMAIN scheduledCalls'
        /\ (req'.op = "GET /scheduled-calls/:id" /\ req'.id = id
                /\ id \notin DOMAIN scheduledCalls')
            => res'.code = 404
        /\ req'.op = "GET /scheduled-calls" => res'.ids = DOMAIN scheduledCalls'
      ]_vars

C2_Witness ==
    /\ req.op = DeleteOp
    /\ res.code = 400
    /\ res.error = ProcessingError
    /\ req.id \in DOMAIN scheduledCalls

\* C3: a completed call has script, audio and provider call id; the call id
\* is only set after the audio, the audio only after the script; a call that
\* failed before its audio was ready was never dialed; and no run is attached
\* to a call that is not processing.
C3_PipelineFields ==
    \A id \in DOMAIN scheduledCalls :
        LET c == scheduledCalls[id]
        IN  /\ c.status = "completed"
                => IsSet(c.script) /\ IsSet(c.audioBuffer) /\ IsSet(c.callSid)
            /\ IsSet(c.callSid) => IsSet(c.audioBuffer)
            /\ IsSet(c.audioBuffer) => IsSet(c.script)
            /\ (c.status = "failed" /\ ~IsSet(c.audioBuffer)) => dialed[id] = 0
            /\ dialed[id] > 0 => IsSet(c.audioBuffer)
            /\ c.status # "processing" => \A p \in ProcIds : procs[p].call # id

C3_Witness ==
    \E id \in DOMAIN scheduledCalls :
        /\ scheduledCalls[id].status = "failed"
        /\ IsSet(scheduledCalls[id].script)
        /\ ~IsSet(scheduledCalls[id].audioBuffer)

\* C4: under the fair scheduling, a registered call that is pending and due
\* is eventually completed, failed or deleted.
C4_DueCallsAreProcessed ==
    \A id \in CallIds :
        (id \in DOMAIN scheduledCalls /\ scheduledCalls[id].status = "pending"
            /\ DateLE(scheduledCalls[id].scheduledDateTime, ValidDate(now)))
        ~> (id \notin DOMAIN scheduledCalls
            \/ scheduledCalls[id].status \in {"completed", "failed"})

C4_Witness ==
    \E p \in ProcIds :
        /\ procs[p].kind = "sweep"
        /\ procs[p].pc = "dial"
        /\ scheduledCalls[procs[p].call].status = "processing"

----------------------------------------------------------------------------
(* Request validation of POST /schedule-call *)

Rep(c, n) == [i \in 1..n |-> c]

PhonePrefixes ==
    {<<>>, <<"+">>, <<"+", "1">>, <<"1">>, <<"+", "2">>, <<" ", "+", "1">>}

PhoneSuffixes == {<<>>, <<"a">>, <<"\n">>}

\* Phone strings around the pattern: each prefix, 0..MaxDigits digits, each
\* suffix; a well-formed number of mixed digits; one with a dash inside.
PhoneInputs ==
    {pre \o Rep("7", n) \o suf :
        pre \in PhonePrefixes, n \in 0..MaxDigits, suf \in PhoneSuffixes}
    \cup {ValidPhone,
          <<"+", "1", "2", "0", "2", "-", "5", "5", "1", "2", "3", "4">>}

ValidateDateInputs ==
    {IsoDateTime(t) : t \in 0..(MaxTime + 1)} \cup {GarbageDateTime, NoDateTime}

\* Request bodies: every phone string with the other fields in order, and
\* every combination of the other fields with a few phone strings.
ScheduleInputs ==
    {[phoneNumber |-> ph, userInfo |-> "Ada", callPurpose |-> "book a table",
      scheduledDateTime |-> IsoDateTime(MaxTime + 1)] : ph \in PhoneInputs}
    \cup [phoneNumber : {ValidPhone, <<>>, <<"9", "1", "1">>},
          userInfo : {"", "Ada"},
          callPurpose : {""} \cup Purposes,
          scheduledDateTime : ValidateDateInputs]

ValidateNext ==
    \/ Tick
    \/ \E body \in ScheduleInputs :
            ScheduleCall(body.phoneNumber, body.userInfo, body.callPurpose,
                         body.scheduledDateTime)
    \/ \E id \in CallIds : DeleteScheduledCall(id)

SpecValidate == Init /\ [][ValidateNext]_vars

ScheduleOp == "POST /schedule-call"

AllFieldsPresent(body) ==
    /\ body.phoneNumber # <<>>
    /\ body.userInfo # ""
    /\ body.callPurpose # ""
    /\ body.scheduledDateTime.kind # "missing"

IsPlusOneTenDigits(s) ==
    /\ Len(s) = 12
    /\ s[1] = "+"
    /\ s[2] = "1"
    /\ \A i \in 3..12 : s[i] \in Digit

\* C5: a request with all four fields is answered 400 'Invalid phone number
\* format. Use +1XXXXXXXXXX', storing nothing, exactly when its phone number
\* is not '+1' followed by exactly 10 digits.
C5_PhoneFormat ==
    [][(req'.op = ScheduleOp /\ AllFieldsPresent(req'.body))
        => IF IsPlusOneTenDigits(req'.body.phoneNumber)
           THEN res' # Answer(400, InvalidPhoneError)
           ELSE /\ res' = Answer(400, InvalidPhoneError)
                /\ UNCHANGED <<scheduledCalls, nextId>>
      ]_vars

C5_Witness ==
    /\ req.op = ScheduleOp
    /\ Len(req.body.phoneNumber) = 13
    /\ req.body.phoneNumber[1] = "+"
    /\ req.body.phoneNumber[2] = "1"
    /\ \A i \in 3..13 : req.body.phoneNumber[i] \in Digit
    /\ res = Answer(400, InvalidPhoneError)

\* C6: a request whose scheduledDateTime is at or before the current time is
\* answered 400; an otherwise valid request with a strictly later time is
\* answered 201 and stored as pending; and every call entering the registry
\* has a scheduled time strictly after the time it is stored at.
C6_FutureOnly ==
    [][/\ (req'.op = ScheduleOp /\ req'.body.scheduledDateTime.kind = "iso"
              /\ req'.body.scheduledDateTime.t <= now)
            => res'.code = 400 /\ UNCHANGED <<scheduledCalls, nextId>>
       /\ (req'.op = ScheduleOp /\ AllFieldsPresent(req'.body)
              /\ IsPlusOneTenDigits(req'.body.phoneNumber)
              /\ req'.body.scheduledDateTime.kind = "iso"
              /\ req'.body.scheduledDateTime.t > now)
            => /\ res'.code = 201
               /\ nextId \in DOMAIN scheduledCalls'
               /\ scheduledCalls'[nextId].status = "pending"
       /\ \A id \in CallIds :
            (id \notin DOMAIN scheduledCalls /\ id \in DOMAIN scheduledCalls')
                => /\ scheduledCalls'[id].scheduledDateTime.valid
                   /\ scheduledCalls'[id].scheduledDateTime.t > now
      ]_vars

----------------------------------------------------------------------------
(* The session service on its own: chatWithSession called on any session id *)

SessionIds == {"1", ScriptSession}

UserMessages == {"hello"}

Appointments == {"dentist", "garage"}

Replies == {"reply"}

\* The user turns callers have appended to a history (MaxTurns bounds them).
UserTurns(h) ==
    Cardinality({i \in 1..Len(h) : h[i].role = "user" /\ h[i].content # <<FollowUp>>})

\* chatWithSession(sessionId, userMessage[, appoimentdata]) up to its first await
ChatRequest(p, sessionId, userMessage, userdata) ==
    /\ FreeSlot(p)
    /\ sessionId \in DOMAIN sessions => UserTurns(sessions[sessionId]) < MaxTurns
    /\ sessions' = ChatBegin(sessions, sessionId, <<userMessage>>, userdata)
    /\ procs' = [procs EXCEPT ![p] =
                    [kind |-> "chat", pc |-> "chat1", call |-> 0, sid |-> sessionId,
                     swNow |-> 0, first |-> <<>>]]
    /\ req' = [op |-> "chatWithSession", id |-> 0,
               body |-> [sessionId |-> sessionId, userMessage |-> userMessage,
                         userdata |-> userdata]]
    /\ res' = NoRes
    /\ UNCHANGED <<now, scheduledCalls, nextId, dialed>>
    /\ backendIdle

SessionInit ==
    /\ now = 0
    /\ scheduledCalls = <<>>
    /\ nextId = 1
    /\ procs = [p \in ProcIds |-> IdleProc]
    /\ sessions = <<>>
    /\ dialed = [id \in CallIds |-> 0]
    /\ req = NoReq
    /\ res = NoRes
    /\ variant \in {"plain", "context"}
    /\ rt = NoRetry
    /\ twiml = NoMarkup
    /\ ClientInit

SessionNext ==
    \/ \E p \in ProcIds, sessionId \in SessionIds, userMessage \in UserMessages,
          userdata \in Appointments :
            ChatRequest(p, sessionId, userMessage, userdata)
    \/ \E p \in ProcIds, content \in Replies : Completion(p, content)
    \/ \E p \in ProcIds : CompletionFails(p)

SpecSession == SessionInit /\ [][SessionNext]_vars

\* C7: every message of a history was appended under that history's own
\* session id; a history holds exactly one system message, its first; and a
\* session id used for the first time gets the seeded system message alone,
\* followed only by the user turn of that first call.
C7_SessionIsolation ==
    [][/\ \A k \in DOMAIN sessions' :
            /\ Len(sessions'[k]) >= 1
            /\ sessions'[k][1].role = "system"
            /\ \A i \in 1..Len(sessions'[k]) :
                /\ sessions'[k][i].under = k
                /\ i > 1 => sessions'[k][i].role \in {"user", "assistant"}
       /\ \A k \in SessionIds :
            (k \notin DOMAIN sessions /\ k \in DOMAIN sessions')
                => /\ req'.op = "chatWithSession"
                   /\ req'.body.sessionId = k
                   /\ sessions'[k] =
                        <<SystemMessage(k, req'.body.userdata),
                          Message("user", <<req'.body.userMessage>>, k)>>
       /\ \A k \in DOMAIN sessions :
            /\ k \in DOMAIN sessions'
            /\ (sessions'[k] # sessions[k])
                => \E p \in ProcIds : procs[p].sid = k \/ procs'[p].sid = k
      ]_vars

C7_Witness ==
    /\ DOMAIN sessions = SessionIds
    /\ \A k \in SessionIds :
        /\ Len(sessions[k]) >= 3
        /\ sessions[k][2].content = <<"hello">>
        /\ sessions[k][3].role = "assistant"

----------------------------------------------------------------------------
(* Client retry policy (frontend utils/api.ts) *)

RetryMaxRetries == 3
RetryBaseDelay == 1000
RetryMaxDelay == 8000

Min2(a, b) == IF a <= b THEN a ELSE b

calculateDelayUncapped(attempt) == RetryBaseDelay * 2 ^ attempt

\* calculateDelay
calculateDelay(attempt) == Min2(RetryBaseDelay * 2 ^ attempt, RetryMaxDelay)

\* What the operation may throw: an APIError with a status code and a
\* retryable flag, or any other Error.
APIError(statusCode, retryable) ==
    [api |-> TRUE, statusCode |-> statusCode, retryable |-> retryable]
OtherError == [api |-> FALSE, statusCode |-> 0, retryable |-> FALSE]

OperationErrors == {APIError(400, FALSE), APIError(500, TRUE), OtherError}

RethrowsNever(error) == FALSE

\* if (error instanceof APIError && !error.retryable) throw error
Rethrows(error) == error.api /\ ~error.retryable

IsLastAttemptEarly(attempt, retries) == attempt >= retries - 1

\* if (attempt === retries) break
IsLastAttempt(attempt, retries) == attempt = retries

retryIdle == UNCHANGED <<serverVars, clientVars>>

\* The catch block of the loop, entered with `error` by the invocation r.
Catch(r, error) ==
    LET failed == [r EXCEPT !.errors = Append(@, error)]
    IN  IF Rethrows(error)
        THEN [failed EXCEPT !.pc = "thrown", !.thrown = <<error>>]
        ELSE IF IsLastAttempt(r.attempt, r.retries)
        THEN [failed EXCEPT !.pc = "thrown", !.thrown = <<error>>]
        ELSE [failed EXCEPT !.pc = "waiting",
                            !.delays = Append(@, calculateDelay(r.attempt))]

\* withRetry(operation, retries) is called: the first attempt invokes the
\* operation.
WithRetry(retries) ==
    /\ rt.pc = "idle"
    /\ rt' = [NoRetry EXCEPT !.pc = "calling", !.retries = retries, !.calls = 1]
    /\ retryIdle

\* The operation resolves: withRetry returns its value.
OperationSucceeds ==
    /\ rt.pc = "calling"
    /\ rt' = [rt EXCEPT !.pc = "returned"]
    /\ retryIdle

\* The operation rejects with `error`: the catch block of the loop.
OperationFails(error) ==
    /\ rt.pc = "calling"
    /\ rt' = Catch(rt, error)
    /\ retryIdle

\* The backoff timer fires: attempt++ and the operation is invoked again.
TimerFires ==
    /\ rt.pc = "waiting"
    /\ rt' = [rt EXCEPT !.pc = "calling", !.attempt = @ + 1, !.calls = @ + 1]
    /\ retryIdle

RetryNext ==
    \/ \E retries \in 0..MaxRetriesArg : WithRetry(retries)
    \/ OperationSucceeds
    \/ \E error \in OperationErrors : OperationFails(error)
    \/ TimerFires

SpecRetry == Init /\ [][RetryNext]_vars

DelayTable == <<1000, 2000, 4000, 8000>>

\* C8: the delay waited after failed attempt n is 1000, 2000, 4000, 8000 ms
\* for n = 0, 1, 2, 3 and 8000 ms for every later attempt.
C8_BackoffDelays ==
    \A i \in 1..Len(rt.delays) :
        rt.delays[i] = IF i <= 4 THEN DelayTable[i] ELSE 8000

C8_Witness == Len(rt.delays) = 5 /\ rt.delays[4] = 8000 /\ rt.delays[5] = 8000

\* C9: once the operation fails with a non-retryable APIError, withRetry has
\* thrown that error with no further invocation and no wait after it; when it
\* is the first failure, the operation ran exactly once and nothing was waited.
C9_NonRetryableShortCircuits ==
    \A i \in 1..Len(rt.errors) :
        (rt.errors[i].api /\ ~rt.errors[i].retryable)
            => /\ i = Len(rt.errors)
               /\ rt.pc = "thrown"
               /\ rt.thrown = <<rt.errors[i]>>
               /\ rt.calls = i
               /\ Len(rt.delays) = i - 1
               /\ i = 1 => rt.delays = <<>>

C9_Witness ==
    /\ rt.pc = "thrown"
    /\ rt.errors = <<APIError(400, FALSE)>>
    /\ rt.calls = 1
    /\ rt.retries = RetryMaxRetries

OnlyRetryable(errors) == \A i \in 1..Len(errors) : ~(errors[i].api /\ ~errors[i].retryable)

\* C10: with the default 3 retries and only retryable failures, the operation
\* is invoked at most 4 times, the waits are 1000, 2000, 4000 ms in that order,
\* and withRetry throws only after the 4th failure, the last error, without
\* invoking the operation again.
C10_RetriesThenThrows ==
    (rt.retries = RetryMaxRetries /\ rt.pc # "idle" /\ OnlyRetryable(rt.errors))
        => /\ rt.calls <= 4
           /\ Len(rt.delays) <= 3
           /\ \A i \in 1..Len(rt.delays) : rt.delays[i] = DelayTable[i]
           /\ rt.pc = "thrown"
                => /\ rt.calls = 4
                   /\ Len(rt.errors) = 4
                   /\ rt.thrown = <<rt.errors[4]>>
                   /\ rt.delays = <<1000, 2000, 4000>>
           /\ Len(rt.errors) = 4 => rt.pc = "thrown"

C10_Witness ==
    /\ rt.retries = RetryMaxRetries
    /\ rt.pc = "thrown"
    /\ rt.calls = 4
    /\ OnlyRetryable(rt.errors)
    /\ rt.delays = <<1000, 2000, 4000>>

----------------------------------------------------------------------------
(* Client provider utilities (frontend utils/api.ts) and the AI scheduling  *)
(* service built on generateAIResponse                                      *)

Utilities == {"generateAIResponse", "synthesizeVoice", "analyzeSentiment", "generateCallSummary"}

ServiceMethods ==
    {"analyzeSchedulingContext", "generateMeetingAgenda", "generatePreCallBriefing",
     "suggestFollowUpActions"}

\* The utility an entry point sends its requests through.
Underlying(entry) == IF entry \in ServiceMethods THEN "generateAIResponse" ELSE entry

\* What one HTTP request ends in: an error response with a status, a failure
\* without a response (timeout, no network), or a 2xx response with a body.
HttpStatuses == {400, 404, 429, 500, 503}
HttpFailure(status) == [kind |-> "http", status |-> status, content |-> ""]
NetworkFailure == [kind |-> "network", status |-> 0, content |-> ""]
Response(content) == [kind |-> "response", status |-> 200, content |-> content]

\* choices[0].message.content of a chat completion.
Contents == {"", " ", "Sure.", "[suggestion]", "{sentiment}", "{summary}", "{}"}

\* The blob of a synthesis response; FileReader fails on the second.
Blobs == {"audio", "unreadable"}

ProviderOutcomes(fn) ==
    {HttpFailure(s) : s \in HttpStatuses} \cup {NetworkFailure}
        \cup {Response(c) : c \in (IF fn = "synthesizeVoice" THEN Blobs ELSE Contents)}

\* String.prototype.trim on the bodies above.
Trim(text) == IF text = " " THEN "" ELSE text

NoFields == [f \in {} |-> ""]

\* JSON.parse on the bodies above: throws SyntaxError unless the text is JSON.
JSONParse(text) ==
    CASE text = "[suggestion]" ->
            [ok |-> TRUE, type |-> "array", fields |-> NoFields,
             items |-> <<[time |-> 600, confidence |-> 0, reason |-> "", prepTime |-> 0]>>]
      [] text = "{sentiment}" ->
            [ok |-> TRUE, type |-> "object", items |-> <<>>,
             fields |-> [sentiment |-> "positive", confidence |-> 9,
                         emotions |-> <<"joy">>]]
      [] text = "{summary}" ->
            [ok |-> TRUE, type |-> "object", items |-> <<>>,
             fields |-> [summary |-> "Talked about pricing.",
                         actionItems |-> <<"send quote">>, keyTopics |-> <<"pricing">>,
                         sentiment |-> "positive"]]
      [] text = "{}" ->
            [ok |-> TRUE, type |-> "object", items |-> <<>>, fields |-> NoFields]
      [] OTHER ->
            [ok |-> FALSE, type |-> "", items |-> <<>>, fields |-> NoFields]

Has(value, field) == field \in DOMAIN value.fields

Ok(data) == [ok |-> TRUE, error |-> OtherError, data |-> data]
Fail(error) == [ok |-> FALSE, error |-> error, data |-> ""]

AxiosFailureByStatusOnly(outcome) ==
    APIError(outcome.status, outcome.status >= 500 \/ outcome.status = 429)

\* The catch block of every operation on an axios error:
\* retryable = statusCode ? statusCode >= 500 || statusCode === 429 : true
AxiosFailure(outcome) ==
    APIError(outcome.status,
             IF outcome.status # 0
             THEN outcome.status >= 500 \/ outcome.status = 429
             ELSE TRUE)

\* generateCallSummary: the fields of the reply, defaulted.
SummaryOf(value) ==
    [summary |-> IF Has(value, "summary") THEN value.fields.summary
                 ELSE "Call completed successfully.",
     actionItems |-> IF Has(value, "actionItems") THEN value.fields.actionItems ELSE <<>>,
     keyTopics |-> IF Has(value, "keyTopics") THEN value.fields.keyTopics ELSE <<>>,
     sentiment |-> IF Has(value, "sentiment") THEN value.fields.sentiment ELSE "neutral"]

\* One invocation of `operation` of the utility fn, given what the request
\* ended in: the value it resolves with or the error it rejects with.
Operation(fn, outcome) ==
    IF outcome.kind # "response" THEN Fail(AxiosFailure(outcome))
    ELSE CASE fn = "generateAIResponse" ->
                IF outcome.content = ""
                THEN Fail(APIError(outcome.status, TRUE))
                ELSE Ok(Trim(outcome.content))
           [] fn = "synthesizeVoice" ->
                IF outcome.content = "unreadable"
                THEN Fail(OtherError)
                ELSE Ok("data:audio/mpeg;base64")
           [] fn = "analyzeSentiment" ->
                LET result == JSONParse(IF outcome.content = "" THEN "{}"
                                        ELSE outcome.content)
                IN  IF ~result.ok THEN Fail(OtherError)
                    ELSE IF ~Has(result, "sentiment") \/ ~Has(result, "confidence")
                    THEN Fail(APIError(200, TRUE))
                    ELSE Ok(result.fields)
           [] fn = "generateCallSummary" ->
                LET result == JSONParse(IF outcome.content = "" THEN "{}"
                                        ELSE outcome.content)
                IN  IF ~result.ok THEN Fail(OtherError)
                    ELSE Ok(SummaryOf(result))

\* The message of the envelope built in the catch block around withRetry.
ErrorText(fn, error) ==
    IF error.api
    THEN CASE fn = "generateAIResponse" ->
                IF error.statusCode = 200 THEN "No response from OpenAI"
                ELSE "OpenAI API Error"
           [] fn = "synthesizeVoice" -> "ElevenLabs API Error"
           [] fn = "analyzeSentiment" ->
                IF error.statusCode = 200 THEN "Invalid sentiment analysis response"
                ELSE "Sentiment Analysis Error"
           [] fn = "generateCallSummary" -> "Summary Generation Error"
    ELSE CASE fn = "generateAIResponse" -> "Failed to generate AI response"
           [] fn = "synthesizeVoice" -> "Failed to convert audio blob"
           [] fn = "analyzeSentiment" -> "Failed to analyze sentiment"
           [] fn = "generateCallSummary" -> "Failed to generate summary"

NeutralSentiment == [sentiment |-> "neutral", confidence |-> 0, emotions |-> <<>>]

\* What the utility fn hands its caller once withRetry (state r) has returned
\* the value `data` or thrown: an envelope, or for synthesizeVoice the error.
UtilityReturn(fn, r, data) ==
    IF r.pc = "returned"
    THEN [threw |-> FALSE, success |-> TRUE, error |-> "", data |-> <<data>>]
    ELSE LET text == ErrorText(fn, r.thrown[1])
         IN  CASE fn = "synthesizeVoice" ->
                    [threw |-> TRUE, success |-> FALSE, error |-> text, data |-> <<>>]
               [] fn = "analyzeSentiment" ->
                    [threw |-> FALSE, success |-> FALSE, error |-> text,
                     data |-> <<NeutralSentiment>>]
               [] OTHER ->
                    [threw |-> FALSE, success |-> FALSE, error |-> text, data |-> <<>>]

\* Instants of the client, in minutes since midnight of day 0.
RequestedTimes == {540, 1410}

\* dayjs: add(n, "hour"), add(n, "day"), hour(h), minute(m)
AddHours(t, n) == t + 60 * n
AddDays(t, n) == t + 1440 * n
SetHour(t, h) == (t \div 1440) * 1440 + h * 60 + (t % 60)
SetMinute(t, m) == t - (t % 60) + m

\* parseSchedulingSuggestions; confidences are in tenths (5 is 0.5).
parseSchedulingSuggestions(response) ==
    LET parsed == JSONParse(response)
    IN  IF ~parsed.ok \/ parsed.type # "array"
        THEN <<>>
        ELSE [i \in 1..Len(parsed.items) |->
                LET item == parsed.items[i]
                IN  [time |-> item.time,
                     confidence |-> IF item.confidence = 0 THEN 5 ELSE item.confidence,
                     reason |-> IF item.reason = "" THEN "AI recommended time"
                                ELSE item.reason,
                     prepTime |-> IF item.prepTime = 0 THEN 15 ELSE item.prepTime]]

\* getFallbackSuggestions; confidences are in tenths (7 is 0.7).
getFallbackSuggestions(requestedTime) ==
    <<[time |-> requestedTime, confidence |-> 7, reason |-> "Requested time slot",
       prepTime |-> 15],
      [time |-> AddHours(requestedTime, 1), confidence |-> 8,
       reason |-> "Alternative with buffer time", prepTime |-> 15],
      [time |-> SetMinute(SetHour(AddDays(requestedTime, 1), 10), 0), confidence |-> 9,
       reason |-> "Optimal productivity hours", prepTime |-> 20]>>

getDefaultAgenda == "# Meeting Agenda: topic"
getDefaultBriefing == "# Pre-Call Briefing: topic"
DefaultFollowUps == <<"Schedule follow-up meeting", "Send summary to participants">>

\* What an AISchedulingService method returns, given the envelope `response`
\* generateAIResponse handed back.
ServiceReturn(entry, requestedTime, response) ==
    LET data == IF response.data = <<>> THEN "" ELSE response.data[1]
    IN  CASE entry = "analyzeSchedulingContext" ->
                IF response.success /\ data # ""
                THEN parseSchedulingSuggestions(data)
                ELSE getFallbackSuggestions(requestedTime)
          [] entry = "generateMeetingAgenda" ->
                IF response.success THEN data ELSE getDefaultAgenda
          [] entry = "generatePreCallBriefing" ->
                IF response.success THEN data ELSE getDefaultBriefing
          [] entry = "suggestFollowUpActions" ->
                IF response.success /\ data # ""
                THEN LET parsed == JSONParse(data)
                     IN  IF parsed.ok
                         THEN IF parsed.type = "array" THEN parsed.items
                              ELSE <<parsed.fields>>
                         ELSE <<data>>
                ELSE DefaultFollowUps

\* What the entry point hands its caller once withRetry has finished in r.
Return(entry, requestedTime, r, data) ==
    LET response == UtilityReturn(Underlying(entry), r, data)
    IN  IF entry \in ServiceMethods
        THEN [threw |-> FALSE, value |-> ServiceReturn(entry, requestedTime, response)]
        ELSE response

providerIdle == UNCHANGED <<serverVars, store, storeOp, hook, modal, wizard, screen>>

\* An entry point is called: it sends its first request through withRetry
\* with the default number of retries.
CallProvider(entry, requestedTime) ==
    /\ pu.pc = "idle"
    /\ rt.pc = "idle"
    /\ pu' = [NoProviderCall EXCEPT !.entry = entry, !.fn = Underlying(entry),
                                    !.requestedTime = requestedTime, !.pc = "running"]
    /\ rt' = [NoRetry EXCEPT !.pc = "calling", !.retries = RetryMaxRetries, !.calls = 1]
    /\ providerIdle

\* The request in flight ends in `outcome`: the operation resolves or rejects,
\* withRetry returns, throws or starts a backoff wait, and when withRetry is
\* over the entry point returns to its caller.
ProviderAnswers(outcome) ==
    /\ pu.pc = "running"
    /\ rt.pc = "calling"
    /\ outcome \in ProviderOutcomes(pu.fn)
    /\ LET o == Operation(pu.fn, outcome)
           r == IF o.ok THEN [rt EXCEPT !.pc = "returned"] ELSE Catch(rt, o.error)
           over == r.pc \in {"returned", "thrown"}
       IN  /\ rt' = r
           /\ pu' = [pu EXCEPT
                        !.outcomes = Append(@, outcome),
                        !.pc = IF over THEN "done" ELSE "running",
                        !.result = IF over
                                   THEN <<Return(pu.entry, pu.requestedTime, r, o.data)>>
                                   ELSE <<>>]
    /\ providerIdle

AllOutcomes ==
    {HttpFailure(s) : s \in HttpStatuses} \cup {NetworkFailure}
        \cup {Response(c) : c \in Blobs \cup Contents}

ProviderNext ==
    \/ \E entry \in Utilities \cup ServiceMethods :
            CallProvider(entry, 0)
    \/ \E requestedTime \in RequestedTimes :
            CallProvider("analyzeSchedulingContext", requestedTime)
    \/ \E outcome \in AllOutcomes : ProviderAnswers(outcome)
    \/ TimerFires

SpecProvider == Init /\ [][ProviderNext]_vars

IsRetryableStatus(outcome) ==
    outcome.kind = "http" /\ (outcome.status >= 500 \/ outcome.status = 429)

\* The requests of the call so far that failed: the request itself failed or
\* its body was rejected by the operation.
FailedRequests == {i \in 1..Len(pu.outcomes) : ~Operation(pu.fn, pu.outcomes[i]).ok}

\* C11 as stated: a failed request of a provider utility is followed by a
\* retry only when it is a response with HTTP status 5xx or 429; every other
\* failure ends the call at once.
C11_RetryOnly5xxOr429 ==
    pu.entry \in Utilities =>
        \A i \in FailedRequests :
            Len(rt.delays) >= i => IsRetryableStatus(pu.outcomes[i])

\* An error response whose status is neither 5xx nor 429.
IsRefusedStatus(outcome) ==
    outcome.kind = "http" /\ ~(outcome.status >= 500 \/ outcome.status = 429)

\* C11 amended: a failed request of a provider utility ends the call at once,
\* with no wait and no further request, exactly when it is an error response
\* whose status is neither 5xx nor 429; a 5xx or 429 response, a failure
\* without a status and an empty, invalid or unparsable body are each followed
\* by a retry as long as fewer than 3 retries were made.
C11_RetryUnlessRefusedStatus ==
    pu.entry \in Utilities =>
        \A i \in FailedRequests :
            IF IsRefusedStatus(pu.outcomes[i])
            THEN /\ i = Len(pu.outcomes)
                 /\ pu.pc = "done"
                 /\ rt.pc = "thrown"
                 /\ rt.calls = i
                 /\ Len(rt.delays) = i - 1
            ELSE /\ i <= RetryMaxRetries => Len(rt.delays) >= i
                 /\ i > RetryMaxRetries => (pu.pc = "done" /\ rt.pc = "thrown")

C11_Witness ==
    /\ pu.entry = "analyzeSentiment"
    /\ pu.pc = "done"
    /\ pu.outcomes = <<NetworkFailure, Response("Sure."), Response("{}"), HttpFailure(404)>>
    /\ rt.calls = 4
    /\ rt.delays = <<1000, 2000, 4000>>

\* Every request of the call failed: no request got a response with a body.
ProviderDown == \A i \in 1..Len(pu.outcomes) : pu.outcomes[i].kind # "response"

DefaultSummary ==
    [summary |-> "Call completed successfully.", actionItems |-> <<>>, keyTopics |-> <<>>,
     sentiment |-> "neutral"]

\* C12: with the chat provider failing on every request, the four AI
\* scheduling methods return their fallback content without throwing,
\* analyzeSentiment returns neutral / confidence 0 / no emotions, and
\* generateCallSummary returns the default summary with empty action items and
\* topics, neither throwing.
C12_OutageFallbacks ==
    (pu.pc = "done" /\ ProviderDown) =>
        LET result == pu.result[1]
        IN  CASE pu.entry = "analyzeSchedulingContext" ->
                    ~result.threw /\ result.value = getFallbackSuggestions(pu.requestedTime)
              [] pu.entry = "generateMeetingAgenda" ->
                    ~result.threw /\ result.value = getDefaultAgenda
              [] pu.entry = "generatePreCallBriefing" ->
                    ~result.threw /\ result.value = getDefaultBriefing
              [] pu.entry = "suggestFollowUpActions" ->
                    ~result.threw /\ result.value = DefaultFollowUps
              [] pu.entry = "analyzeSentiment" ->
                    ~result.threw /\ result.data = <<NeutralSentiment>>
              [] pu.entry = "generateCallSummary" ->
                    ~result.threw /\ result.data = <<DefaultSummary>>
              [] OTHER -> TRUE

\* The reply of the provider is a JSON array of suggestions.
IsSuggestionArray(content) ==
    JSONParse(Trim(content)).ok /\ JSONParse(Trim(content)).type = "array"

\* C13: analyzeSchedulingContext returns the three fallback suggestions
\* (requested time, one hour later, next day at 10:00; confidences 0.7, 0.8,
\* 0.9) when the provider call failed and when the provider answered with a
\* reply that is not a JSON array of suggestions.
C13_FallbackOnFailureAndUnparsable ==
    (pu.pc = "done" /\ pu.entry = "analyzeSchedulingContext") =>
        LET last == pu.outcomes[Len(pu.outcomes)]
        IN  (last.kind # "response" \/ ~IsSuggestionArray(last.content))
                => pu.result[1].value = getFallbackSuggestions(pu.requestedTime)

----------------------------------------------------------------------------
(* POST /handle-speech: the reply of a live call (app.ts, roleplay variant   *)
(* in the build holding the context-seeded session service)                 *)

Apology == "Sorry, I couldn't understand that."

\* req.body.SpeechResult: absent, empty or the transcribed speech.
SpeechResults == {"undefined", "", "I need an appointment"}

SpeechFalsy(userInput) == userInput \in {"undefined", ""}

\* The user message handed to chatWithSession("1", ...).
SpeechPrompt(userInput) ==
    IF variant = "plain" THEN <<userInput>>
    ELSE <<"You are playing the role of John Smith", userInput>>

\* The markup sent: <Say>reply</Say> <Redirect method="POST">/twiml</Redirect>
Markup(reply) == [state |-> "sent", say |-> reply, redirect |-> "/twiml"]

\* chatResp || reply: the plain service returns `${first}\n\n${followUp}`,
\* never empty; the context-seeded one returns the content alone.
SpeechReply(chatResp) ==
    IF Len(chatResp) = 1 /\ chatResp[1] = "" THEN <<Apology>> ELSE chatResp

speechIdle == UNCHANGED <<now, scheduledCalls, nextId, dialed, req, res, variant, rt, clientVars>>

\* The handler up to its first await, or to its end when no speech came.
HandleSpeech(p, userInput) ==
    /\ FreeSlot(p)
    /\ IF SpeechFalsy(userInput)
       THEN /\ twiml' = Markup(<<Apology>>)
            /\ UNCHANGED <<procs, sessions>>
       ELSE /\ "1" \in DOMAIN sessions => UserTurns(sessions["1"]) < MaxTurns
            /\ sessions' = ChatBegin(sessions, "1", SpeechPrompt(userInput), "undefined")
            /\ procs' = [procs EXCEPT ![p] =
                            [kind |-> "speech", pc |-> "chat1", call |-> 0, sid |-> "1",
                             swNow |-> 0, first |-> <<>>]]
            /\ twiml' = [state |-> "pending", say |-> <<>>, redirect |-> ""]
    /\ speechIdle

\* The chat-completion provider answers the request of the handler's
\* chatWithSession call; when chatWithSession returns, the markup is sent.
SpeechCompletion(p, content) ==
    /\ procs[p].kind = "speech"
    /\ IF procs[p].pc = "chat1" /\ variant = "plain"
       THEN /\ sessions' = ChatAfterFirst(sessions, procs[p].sid, content)
            /\ procs' = [procs EXCEPT ![p].pc = "chat2", ![p].first = content]
            /\ UNCHANGED twiml
       ELSE /\ sessions' = IF procs[p].pc = "chat1"
                           THEN ChatAfterFirst(sessions, procs[p].sid, content)
                           ELSE ChatAfterSecond(sessions, procs[p].sid, content)
            /\ procs' = [procs EXCEPT ![p] = IdleProc]
            /\ twiml' = Markup(SpeechReply(IF procs[p].pc = "chat1" THEN <<content>>
                                           ELSE <<procs[p].first, content>>))
    /\ speechIdle

\* The chat-completion request fails: chatWithSession throws, the handler has
\* no catch block, its promise rejects and nothing is sent for the request.
SpeechCompletionFails(p) ==
    /\ procs[p].kind = "speech"
    /\ procs' = [procs EXCEPT ![p] = IdleProc]
    /\ twiml' = [state |-> "unanswered", say |-> <<>>, redirect |-> ""]
    /\ UNCHANGED sessions
    /\ speechIdle

SpeechNext ==
    \/ \E p \in ProcIds, userInput \in SpeechResults : HandleSpeech(p, userInput)
    \/ \E p \in ProcIds, content \in {"Saturday, please.", ""} : SpeechCompletion(p, content)
    \/ \E p \in ProcIds : SpeechCompletionFails(p)

SpecSpeech == SessionInit /\ [][SpeechNext]_vars

\* C14: every POST /handle-speech request whose handler has ended was sent
\* call markup, a Say followed by a Redirect to /twiml, and a request during
\* which the chat-completion provider failed was sent the apology line.
C14_SpeechAlwaysAnswered ==
    (twiml.state # "none" /\ \A p \in ProcIds : procs[p].kind # "speech")
        => /\ twiml.say # <<>>
           /\ twiml.redirect = "/twiml"
           /\ twiml.state # "sent" => twiml.say = <<Apology>>

----------------------------------------------------------------------------
(* The Call Store (zustand store with a persist middleware)                  *)

\* A Date of the client, and what JSON.stringify followed by JSON.parse makes
\* of it: the ISO string, no longer a Date.
DateValue(t) == [t |-> t, isDate |-> TRUE]
Revived(d) == [t |-> d.t, isDate |-> FALSE]

NewMetrics ==
    [totalDuration |-> 0, averageResponseTime |-> 0, wordsPerMinute |-> 0,
     sentimentScore |-> 0]

\* { ...base, ...updates }
Spread(base, updates) ==
    [k \in DOMAIN base \cup DOMAIN updates |->
        IF k \in DOMAIN updates THEN updates[k] ELSE base[k]]

\* startSession
startSession(s, eventId, at) ==
    [s EXCEPT !.currentSession =
                <<[id |-> s.made + 1, eventId |-> eventId, startTime |-> DateValue(at),
                   endTime |-> <<>>, messages |-> <<>>, metrics |-> NewMetrics,
                   summary |-> <<>>, actionItems |-> <<>>]>>,
              !.made = @ + 1]

endSessionKeepsCurrent(s, at) ==
    IF s.currentSession = <<>> THEN s
    ELSE [s EXCEPT !.sessions =
                    Append(@, [s.currentSession[1] EXCEPT !.endTime = <<DateValue(at)>>])]

\* endSession
endSession(s, at) ==
    IF s.currentSession = <<>> THEN s
    ELSE [s EXCEPT !.sessions =
                    Append(@, [s.currentSession[1] EXCEPT !.endTime = <<DateValue(at)>>]),
                   !.currentSession = <<>>]

\* addMessage
addMessage(s, messageData, at) ==
    IF s.currentSession = <<>> THEN s
    ELSE [s EXCEPT !.currentSession[1].messages =
                    Append(@, [id |-> s.made + 1, content |-> messageData.content,
                               sender |-> messageData.sender,
                               timestamp |-> DateValue(at)]),
                   !.made = @ + 1]

\* updateSessionMetrics
updateSessionMetrics(s, metrics) ==
    IF s.currentSession = <<>> THEN s
    ELSE [s EXCEPT !.currentSession[1].metrics = Spread(@, metrics)]

\* setSessionSummary
setSessionSummary(s, summary, actionItems) ==
    IF s.currentSession = <<>> THEN s
    ELSE [s EXCEPT !.currentSession[1].summary = <<summary>>,
                   !.currentSession[1].actionItems = actionItems]

MessageInputs ==
    {[content |-> c, sender |-> w] : c \in {"hi", "bye"}, w \in {"user"}}
        \cup {[content |-> "hello", sender |-> "ai"]}

storeIdle == UNCHANGED <<serverVars, rt, pu, hook, modal, wizard, screen>>

\* The ids the model hands out in one run.
MaxIds == MaxSessions + MaxMessages

StartSession(eventId) ==
    /\ store.made < MaxIds
    /\ store' = startSession(store, eventId, now)
    /\ storeOp' = [name |-> "startSession", result |-> <<>>, added |-> <<>>]
    /\ storeIdle

EndSession ==
    /\ store' = endSession(store, now)
    /\ storeOp' = [storeOp EXCEPT !.name = "endSession"]
    /\ storeIdle

AddMessage(messageData) ==
    /\ store.currentSession # <<>> => store.made < MaxIds
    /\ store' = addMessage(store, messageData, now)
    /\ storeOp' = [storeOp EXCEPT
                    !.name = "addMessage",
                    !.added = IF store.currentSession = <<>> THEN @
                              ELSE Append(@, messageData)]
    /\ storeIdle

UpdateSessionMetrics(metrics) ==
    /\ store' = updateSessionMetrics(store, metrics)
    /\ storeOp' = [storeOp EXCEPT !.name = "updateSessionMetrics"]
    /\ storeIdle

SetSessionSummary(summary, actionItems) ==
    /\ store' = setSessionSummary(store, summary, actionItems)
    /\ storeOp' = [storeOp EXCEPT !.name = "setSessionSummary"]
    /\ storeIdle

StoreSessionNext ==
    \/ StartSession("event_1")
    \/ EndSession
    \/ \E messageData \in MessageInputs : AddMessage(messageData)
    \/ UpdateSessionMetrics([averageResponseTime |-> 2, messageCount |-> 2])
    \/ SetSessionSummary("Talked about pricing.", <<"send quote">>)

SpecStoreSessions == Init /\ [][StoreSessionNext]_vars

\* C15: an endSession on a current session appends exactly one CallSession to
\* sessions, carrying exactly the messages added since its startSession, in
\* order, and a non-null endTime, and leaves currentSession null; endSession,
\* addMessage, updateSessionMetrics and setSessionSummary with no current
\* session leave the store unchanged.
C15_SessionLifecycle ==
    [][/\ (storeOp'.name = "endSession" /\ store.currentSession # <<>>)
            => /\ Len(store'.sessions) = Len(store.sessions) + 1
               /\ SubSeq(store'.sessions, 1, Len(store.sessions)) = store.sessions
               /\ LET ended == store'.sessions[Len(store'.sessions)]
                  IN  /\ ended.id = store.currentSession[1].id
                      /\ Len(ended.messages) = Len(storeOp.added)
                      /\ \A i \in 1..Len(storeOp.added) :
                            /\ ended.messages[i].content = storeOp.added[i].content
                            /\ ended.messages[i].sender = storeOp.added[i].sender
                      /\ ended.endTime # <<>>
               /\ store'.currentSession = <<>>
               /\ store'.events = store.events
       /\ (/\ storeOp'.name \in {"endSession", "addMessage", "updateSessionMetrics",
                                 "setSessionSummary"}
           /\ store.currentSession = <<>>)
            => store' = store
      ]_vars

C15_Witness ==
    /\ storeOp.name = "endSession"
    /\ store.currentSession = <<>>
    /\ Len(store.sessions) = 1
    /\ Len(store.sessions[1].messages) = 2
    /\ store.sessions[1].messages[1].content = "bye"
    /\ store.sessions[1].messages[2].content = "hello"
    /\ store.sessions[1].endTime # <<>>

----------------------------------------------------------------------------
(* The Call Store: events, the upcoming-events query and the reload of the   *)
(* persisted store.  createdAt and updatedAt of an event are left out: no    *)
(* query reads them.                                                         *)

\* addEvent
addEvent(s, eventData) ==
    [s EXCEPT !.events = Append(@, [id |-> s.made + 1,
                                    scheduledTime |-> eventData.scheduledTime,
                                    status |-> eventData.status]),
              !.made = @ + 1]

\* updateEvent
updateEvent(s, id, updates) ==
    [s EXCEPT !.events = [i \in 1..Len(@) |->
                            IF @[i].id = id THEN Spread(@[i], updates) ELSE @[i]]]

\* Array.prototype.filter: the elements of seq at the indices in `keep`, in
\* their order.
RECURSIVE AtIndices(_, _)
AtIndices(seq, keep) ==
    IF seq = <<>> THEN <<>>
    ELSE LET front == AtIndices(SubSeq(seq, 1, Len(seq) - 1), keep)
         IN  IF Len(seq) \in keep THEN Append(front, seq[Len(seq)]) ELSE front

\* deleteEvent
deleteEvent(s, id) ==
    [s EXCEPT !.events =
        AtIndices(s.events, {i \in 1..Len(s.events) : s.events[i].id # id})]

\* event.scheduledTime > now: a Date compares by its time value; a string
\* left by the reload converts to NaN, and every comparison with NaN is false.
IsAfter(scheduledTime, at) == scheduledTime.isDate /\ scheduledTime.t > at

\* Array.prototype.sort with (a, b) => a.scheduledTime.getTime() -
\* b.scheduledTime.getTime(): a stable sort, here by insertion.
RECURSIVE SortByTime(_)
SortByTime(seq) ==
    IF seq = <<>> THEN <<>>
    ELSE LET rest == SortByTime(SubSeq(seq, 1, Len(seq) - 1))
             last == seq[Len(seq)]
             notAfterLast == {i \in 1..Len(rest) :
                                rest[i].scheduledTime.t <= last.scheduledTime.t}
             afterLast == {i \in 1..Len(rest) :
                             rest[i].scheduledTime.t > last.scheduledTime.t}
         IN  AtIndices(rest, notAfterLast) \o <<last>> \o AtIndices(rest, afterLast)

\* getUpcomingEvents
getUpcomingEvents(s, at) ==
    LET upcoming == {i \in 1..Len(s.events) :
                        /\ IsAfter(s.events[i].scheduledTime, at)
                        /\ s.events[i].status = "scheduled"}
    IN  SortByTime(AtIndices(s.events, upcoming))

ReviveSession(session) ==
    [session EXCEPT
        !.startTime = Revived(@),
        !.endTime = IF @ = <<>> THEN @ ELSE <<Revived(@[1])>>,
        !.messages = [i \in 1..Len(@) |-> [@[i] EXCEPT !.timestamp = Revived(@)]]]

\* The app starts again: persist reads the partialized state (events and
\* sessions) back with JSON.parse, which has no reviver.
rehydrate(s) ==
    [s EXCEPT !.events = [i \in 1..Len(@) |-> [@[i] EXCEPT !.scheduledTime = Revived(@)]],
              !.sessions = [i \in 1..Len(@) |-> ReviveSession(@[i])],
              !.currentSession = <<>>]

EventStatuses == {"scheduled", "completed"}

\* The instants an event can be scheduled at: before, at and after any now.
EventTimes == 0..(MaxTime + 1)

AddEvent(eventData) ==
    /\ Len(store.events) < MaxEvents
    /\ store' = addEvent(store, eventData)
    /\ storeOp' = [storeOp EXCEPT !.name = "addEvent", !.result = <<>>]
    /\ storeIdle

UpdateEvent(id, updates) ==
    /\ store' = updateEvent(store, id, updates)
    /\ storeOp' = [storeOp EXCEPT !.name = "updateEvent", !.result = <<>>]
    /\ storeIdle

DeleteEvent(id) ==
    /\ store' = deleteEvent(store, id)
    /\ storeOp' = [storeOp EXCEPT !.name = "deleteEvent", !.result = <<>>]
    /\ storeIdle

GetUpcomingEvents ==
    /\ storeOp' = [storeOp EXCEPT !.name = "getUpcomingEvents",
                                  !.result = getUpcomingEvents(store, now)]
    /\ UNCHANGED store
    /\ storeIdle

Rehydrate ==
    /\ store' = rehydrate(store)
    /\ storeOp' = [NoStoreOp EXCEPT !.name = "rehydrate"]
    /\ storeIdle

StoreEventNext ==
    \/ Tick
    \/ \E t \in EventTimes, status \in EventStatuses :
            AddEvent([scheduledTime |-> DateValue(t), status |-> status])
    \/ \E id \in 1..MaxEvents, status \in EventStatuses :
            UpdateEvent(id, [status |-> status])
    \/ \E id \in 1..MaxEvents : DeleteEvent(id)
    \/ GetUpcomingEvents
    \/ Rehydrate

SpecStoreEvents == Init /\ [][StoreEventNext]_vars

\* C16: getUpcomingEvents returns exactly the stored events whose
\* scheduledTime is strictly after the current time and whose status is
\* scheduled, in ascending order of scheduledTime, and leaves the store as it
\* was.
C16_UpcomingEvents ==
    [][(storeOp'.name = "getUpcomingEvents" /\ now' = now)
        => LET result == storeOp'.result
               wanted == {i \in 1..Len(store.events) :
                            /\ store.events[i].scheduledTime.t > now
                            /\ store.events[i].status = "scheduled"}
           IN  /\ Len(result) = Cardinality(wanted)
               /\ \A i \in wanted : \E j \in 1..Len(result) : result[j] = store.events[i]
               /\ \A j, k \in 1..Len(result) :
                    j < k => result[j].scheduledTime.t <= result[k].scheduledTime.t
               /\ store' = store
      ]_vars

----------------------------------------------------------------------------
(* The Call Metrics hook (hooks/useCallMertics.ts)                           *)

\* A message content is its sequence of characters; " " is whitespace.
IsSpace(content, i) == content[i] = " "

\* content.split(/\s+/).length: one piece more than there are maximal runs
\* of whitespace (an empty content is one empty piece).
SplitLength(content) ==
    Cardinality({i \in 1..Len(content) :
                    IsSpace(content, i) /\ (i = 1 \/ ~IsSpace(content, i - 1))}) + 1

\* message.sentiment as a sign
SentimentSign(sentiment) ==
    IF sentiment = "positive" THEN 1 ELSE IF sentiment = "negative" THEN -1 ELSE 0

recordMessageAnyAi(prev, message, at) ==
    [prev EXCEPT
        !.responseTimes = IF message.sender = "ai" THEN Append(@, at) ELSE @,
        !.sentimentScores = Append(@, SentimentSign(message.sentiment) * message.confidence),
        !.totalWords = @ + SplitLength(message.content),
        !.totalCharacters = @ + Len(message.content),
        !.messageCount = @ + 1,
        !.responseStartTime = IF message.sender = "user" THEN <<at>> ELSE <<>>]

\* The updater recordMessage hands to setMetrics, with now = at; confidences
\* and scores are in tenths.
recordMessage(prev, message, at) ==
    [prev EXCEPT
        !.responseTimes = IF message.sender = "ai" /\ prev.responseStartTime # <<>>
                          THEN Append(@, at - prev.responseStartTime[1])
                          ELSE @,
        !.sentimentScores = Append(@, SentimentSign(message.sentiment) * message.confidence),
        !.totalWords = @ + SplitLength(message.content),
        !.totalCharacters = @ + Len(message.content),
        !.messageCount = @ + 1,
        !.responseStartTime = IF message.sender = "user" THEN <<at>> ELSE <<>>]

RECURSIVE SumSeq(_)
SumSeq(seq) == IF seq = <<>> THEN 0 ELSE Head(seq) + SumSeq(Tail(seq))

\* A quotient of the client's floating-point arithmetic, kept exact.
Ratio(num, den) == [num |-> num, den |-> den]

\* getAverageResponseTime
getAverageResponseTime(m) ==
    IF Len(m.responseTimes) = 0 THEN Ratio(0, 1)
    ELSE Ratio(SumSeq(m.responseTimes), Len(m.responseTimes))

\* getAverageSentiment
getAverageSentiment(m) ==
    IF Len(m.sentimentScores) = 0 THEN Ratio(0, 1)
    ELSE Ratio(SumSeq(m.sentimentScores), Len(m.sentimentScores))

\* The contents the Call Screen records: a greeting, the demonstration user
\* message and trimmed, non-empty replies; words are separated by one or more
\* whitespace characters.
MetricContents ==
    {<<"o", "k">>, <<"a", " ", "b", " ", "c">>, <<"d", " ", " ", "e">>}

MetricMessages ==
    {[content |-> c, sender |-> w, sentiment |-> s, confidence |-> 8] :
        c \in MetricContents, w \in {"user", "ai"}, s \in {"positive", "negative"}}
    \cup {[content |-> <<"o", "k">>, sender |-> w, sentiment |-> "neutral",
             confidence |-> 5] : w \in {"user", "ai"}}

hookIdle == UNCHANGED <<scheduledCalls, nextId, procs, sessions, dialed, req, res, variant,
                        twiml, rt, pu, store, storeOp, modal, wizard, screen>>

RecordMessage(message) ==
    /\ Len(hook.recorded) < MaxRecorded
    /\ hook' = [metrics |-> recordMessage(hook.metrics, message, now),
                lastMessageTime |-> now,
                recorded |-> Append(hook.recorded, [message |-> message, at |-> now])]
    /\ UNCHANGED now
    /\ hookIdle

ResetMetrics ==
    /\ hook' = FreshHook(now)
    /\ UNCHANGED now
    /\ hookIdle

MetricsNext ==
    \/ Tick
    \/ \E message \in MetricMessages : RecordMessage(message)
    \/ ResetMetrics

SpecMetrics == Init /\ [][MetricsNext]_vars

\* The words of a content: its maximal runs of non-whitespace characters.
WordCount(content) ==
    Cardinality({i \in 1..Len(content) :
                    ~IsSpace(content, i) /\ (i = 1 \/ IsSpace(content, i - 1))})

\* The recorded messages that are AI messages directly preceded by a user
\* message.
Answered ==
    {i \in 2..Len(hook.recorded) :
        /\ hook.recorded[i].message.sender = "ai"
        /\ hook.recorded[i - 1].message.sender = "user"}

\* The k-th of the answered messages, in the order recorded.
KthAnswered(k) == CHOOSE i \in Answered : Cardinality({j \in Answered : j <= i}) = k

\* The mean of a list of samples, 0 for the empty list.
MeanOf(samples) ==
    IF samples = <<>> THEN Ratio(0, 1) ELSE Ratio(SumSeq(samples), Len(samples))

----------------------------------------------------------------------------
(* The four-step modal wizard (src/screens/SchedulerScreen.tsx).  The clock  *)
(* ticks once per time slot; a day has the two slots 09:00 and 14:00.        *)

ModalSteps == <<"task", "recipient", "schedule", "review">>

\* steps.indexOf(modalStep)
IndexOf(step) == CHOOSE i \in 1..Len(ModalSteps) : ModalSteps[i] = step

TimeSlots == <<"09:00", "14:00">>

\* dayjs(selectedDate).hour(hours).minute(minutes).second(0).toDate()
CallDate(selectedDate, callTime) ==
    selectedDate * Len(TimeSlots)
        + (CHOOSE k \in 1..Len(TimeSlots) : TimeSlots[k] = callTime) - 1

\* dayjs().format("YYYY-MM-DD") read at `at`
Today(at) == at \div Len(TimeSlots)

\* recipientPhone.replace(/\D/g, "").length
PhoneDigits(phone) == Cardinality({i \in 1..Len(phone) : phone[i] \in Digit})

\* validateCurrentStep
validateCurrentStep(m) ==
    CASE m.modalStep = "task" ->
            m.formData.taskTitle # "" /\ m.formData.taskDescription # ""
      [] m.modalStep = "recipient" ->
            m.formData.recipientName # "" /\ PhoneDigits(m.formData.recipientPhone) >= 10
      [] OTHER -> TRUE

modalIdle == UNCHANGED <<serverVars, rt, pu, hook, wizard, screen>>

\* The floating action button opens the modal.
OpenModal ==
    /\ ~modal.visible
    /\ modal' = [modal EXCEPT !.visible = TRUE, !.alert = ""]
    /\ UNCHANGED <<store, storeOp>>
    /\ modalIdle

\* Cancel or dismissal: setIsModalVisible(false); resetForm()
DismissModal ==
    /\ modal.visible
    /\ modal' = [modal EXCEPT !.visible = FALSE, !.formData = ModalForm,
                              !.modalStep = "task"]
    /\ UNCHANGED <<store, storeOp>>
    /\ modalIdle

\* The user completes the profile (User Store).
SaveProfile ==
    /\ ~modal.profile
    /\ modal' = [modal EXCEPT !.profile = TRUE]
    /\ UNCHANGED <<store, storeOp>>
    /\ modalIdle

\* A form field is edited.
EditModal(field, value) ==
    /\ modal.visible
    /\ modal' = [modal EXCEPT !.formData[field] = value]
    /\ UNCHANGED <<store, storeOp>>
    /\ modalIdle

\* handleDateSelect: a day of the calendar is pressed.
HandleDateSelect(day) ==
    /\ modal' = [modal EXCEPT !.selectedDate = day]
    /\ UNCHANGED <<store, storeOp>>
    /\ modalIdle

\* handleNextStep; the button is disabled unless validateCurrentStep().
HandleNextStep ==
    /\ modal.visible
    /\ modal.modalStep # "review"
    /\ validateCurrentStep(modal)
    /\ modal' = [modal EXCEPT !.modalStep = ModalSteps[IndexOf(@) + 1]]
    /\ UNCHANGED <<store, storeOp>>
    /\ modalIdle

\* handlePrevStep; the button is shown on every step but the first.
HandlePrevStep ==
    /\ modal.visible
    /\ modal.modalStep # "task"
    /\ modal' = [modal EXCEPT !.modalStep = ModalSteps[IndexOf(@) - 1]]
    /\ UNCHANGED <<store, storeOp>>
    /\ modalIdle

\* handleScheduleAICall up to its await: the event is added to the store.
HandleScheduleAICall ==
    /\ modal.visible
    /\ modal.modalStep = "review"
    /\ Len(store.events) < MaxEvents
    /\ IF ~modal.profile
       THEN /\ modal' = [modal EXCEPT !.alert = "Profile Required"]
            /\ UNCHANGED <<store, storeOp>>
       ELSE IF PhoneDigits(modal.formData.recipientPhone) < 10
       THEN /\ modal' = [modal EXCEPT !.alert = "Invalid Phone Number"]
            /\ UNCHANGED <<store, storeOp>>
       ELSE /\ store' = addEvent(store,
                            [scheduledTime |->
                                DateValue(CallDate(modal.selectedDate,
                                                   modal.formData.callTime)),
                             status |-> "scheduled"])
            /\ storeOp' = [storeOp EXCEPT !.name = "addEvent", !.result = <<>>]
            /\ modal' = [modal EXCEPT !.pc = "haptics", !.alert = ""]
    /\ modalIdle

\* The haptic feedback resolves: the modal closes, the form is reset and the
\* confirmation is shown.
ModalHapticsDone ==
    /\ modal.pc = "haptics"
    /\ modal' = [modal EXCEPT !.pc = "idle", !.visible = FALSE, !.formData = ModalForm,
                              !.modalStep = "task", !.alert = "AI Call Scheduled!"]
    /\ UNCHANGED <<store, storeOp>>
    /\ modalIdle

\* The haptic feedback rejects: the handler ends there.
ModalHapticsFails ==
    /\ modal.pc = "haptics"
    /\ modal' = [modal EXCEPT !.pc = "idle"]
    /\ UNCHANGED <<store, storeOp>>
    /\ modalIdle

ModalNext ==
    \/ Tick
    \/ OpenModal
    \/ DismissModal
    \/ SaveProfile
    \/ \E value \in {"", "Book a table"} : EditModal("taskTitle", value)
    \/ \E value \in {"", "For two, at eight"} : EditModal("taskDescription", value)
    \/ \E value \in {"", "Luigi"} : EditModal("recipientName", value)
    \/ \E value \in {<<>>, ValidPhone} : EditModal("recipientPhone", value)
    \/ \E k \in 1..Len(TimeSlots) : EditModal("callTime", TimeSlots[k])
    \/ \E day \in 0..(Today(MaxTime) + 1) : HandleDateSelect(day)
    \/ HandleNextStep
    \/ HandlePrevStep
    \/ HandleScheduleAICall
    \/ ModalHapticsDone
    \/ ModalHapticsFails

SpecModal == Init /\ [][ModalNext]_vars

\* C18: whenever a scheduling wizard adds an event to the Call Store, the
\* scheduled time of that event is after the current time of the submission.
C18_NoPastEventAdded ==
    [][Len(store.events') > Len(store.events)
          => store.events'[Len(store.events')].scheduledTime.t > now]_vars

----------------------------------------------------------------------------
(* The five-step wizard (frontend/src/screens/SchedulerScreen.tsx).  A title *)
(* is a sequence of characters; the errors are the set of the fields in      *)
(* error.  The profile is the screen's dummy profile: no phone, an e-mail.   *)

totalSteps == 5

\* The number of submissions of the wizard that are explored.
MaxSubmissions == 1

\* title.trim() is the empty string
BlankTitle(title) == \A i \in 1..Len(title) : IsSpace(title, i)

\* getMissingProfileFields: the selected fields the profile has no value for
getMissingProfileFields(formData) == formData.selectedProfileFields \cap {"phone"}

\* validateStep with the date check left out.
validateStepNoDateCheck(formData, step, at) ==
    CASE step = 0 ->
            IF BlankTitle(formData.title) \/ Len(formData.title) < 3 THEN {"title"} ELSE {}
      [] step = 2 -> IF formData.voicePersona = "" THEN {"voicePersona"} ELSE {}
      [] step = 3 ->
            (IF formData.selectedProfileFields = {} THEN {"selectedProfileFields"} ELSE {})
            \cup (IF "phone" \in getMissingProfileFields(formData)
                        /\ formData.additionalData.phone = ""
                  THEN {"additionalData"} ELSE {})
      [] OTHER -> {}

\* validateStep: newErrors, the fields of `step` in error at `at`; the step
\* is valid when there are none.
validateStep(formData, step, at) ==
    CASE step = 0 ->
            IF BlankTitle(formData.title) \/ Len(formData.title) < 3 THEN {"title"} ELSE {}
      [] step = 1 -> IF formData.scheduledDate.t <= at THEN {"scheduledDate"} ELSE {}
      [] step = 2 -> IF formData.voicePersona = "" THEN {"voicePersona"} ELSE {}
      [] step = 3 ->
            (IF formData.selectedProfileFields = {} THEN {"selectedProfileFields"} ELSE {})
            \cup (IF "phone" \in getMissingProfileFields(formData)
                        /\ formData.additionalData.phone = ""
                  THEN {"additionalData"} ELSE {})
      [] OTHER -> {}

\* goToStep
goToStep(w, step) ==
    IF step >= 0 /\ step < totalSteps THEN [w EXCEPT !.currentStep = step] ELSE w

\* addEventFromForm: the event the Call Store builds from the wizard's form.
addEventFromForm(s, formData) ==
    addEvent(s, [scheduledTime |-> formData.scheduledDate, status |-> "scheduled"])

wizardIdle == UNCHANGED <<serverVars, rt, pu, hook, modal, screen>>

\* updateFormData
UpdateFormData(updates) ==
    /\ wizard.alert = ""
    /\ wizard' = [wizard EXCEPT !.formData = Spread(@, updates), !.errors = {}]
    /\ UNCHANGED <<store, storeOp>>
    /\ wizardIdle

\* updateAdditionalData
UpdateAdditionalData(field, value) ==
    /\ wizard.alert = ""
    /\ "phone" \in getMissingProfileFields(wizard.formData)
    /\ wizard' = [wizard EXCEPT !.formData.additionalData[field] = value]
    /\ UNCHANGED <<store, storeOp>>
    /\ wizardIdle

\* nextStep; the Next button is shown on every step but the last.
NextStep ==
    /\ wizard.alert = ""
    /\ wizard.currentStep < totalSteps - 1
    /\ LET newErrors == validateStep(wizard.formData, wizard.currentStep, now)
           validated == [wizard EXCEPT !.errors = newErrors]
       IN  wizard' = IF newErrors = {}
                     THEN goToStep(validated, wizard.currentStep + 1)
                     ELSE validated
    /\ UNCHANGED <<store, storeOp>>
    /\ wizardIdle

\* prevStep; the Back button is disabled on the first step.
PrevStep ==
    /\ wizard.alert = ""
    /\ wizard.currentStep # 0
    /\ wizard' = goToStep(wizard, wizard.currentStep - 1)
    /\ UNCHANGED <<store, storeOp>>
    /\ wizardIdle

\* handleSubmit up to its await; the Submit button is shown on the last step
\* and disabled while submitting.  addEventFromForm returns or throws.
HandleSubmit(thrown) ==
    /\ wizard.alert = ""
    /\ wizard.currentStep = totalSteps - 1
    /\ ~wizard.isSubmitting
    /\ store.made < MaxSubmissions
    /\ LET newErrors == validateStep(wizard.formData, wizard.currentStep, now)
       IN  IF newErrors # {}
           THEN /\ wizard' = [wizard EXCEPT !.errors = newErrors]
                /\ UNCHANGED <<store, storeOp>>
           ELSE IF thrown
           THEN /\ wizard' = [wizard EXCEPT !.errors = newErrors, !.isSubmitting = TRUE,
                                            !.alert = "Error", !.pc = "error"]
                /\ UNCHANGED <<store, storeOp>>
           ELSE /\ store' = addEventFromForm(store, wizard.formData)
                /\ storeOp' = [storeOp EXCEPT !.name = "addEventFromForm", !.result = <<>>]
                /\ wizard' = [wizard EXCEPT !.errors = newErrors, !.isSubmitting = TRUE,
                                            !.alert = "", !.pc = "success"]
    /\ wizardIdle

\* The success haptic resolves: the success modal is shown, the form and the
\* step are reset and the finally block clears isSubmitting.
SubmitHapticsDone ==
    /\ wizard.pc = "success"
    /\ wizard' = [wizard EXCEPT !.showSuccessModal = TRUE, !.formData = WizardForm(now),
                                !.currentStep = 0, !.errors = {},
                                !.isSubmitting = FALSE, !.pc = "idle"]
    /\ UNCHANGED <<store, storeOp>>
    /\ wizardIdle

\* The success haptic rejects: the catch block shows the alert and awaits
\* the error haptic.
SubmitHapticsFails ==
    /\ wizard.pc = "success"
    /\ wizard' = [wizard EXCEPT !.alert = "Error", !.pc = "error"]
    /\ UNCHANGED <<store, storeOp>>
    /\ wizardIdle

\* The error haptic settles either way: the finally block clears isSubmitting.
ErrorHapticsSettles ==
    /\ wizard.pc = "error"
    /\ wizard' = [wizard EXCEPT !.isSubmitting = FALSE, !.pc = "idle"]
    /\ UNCHANGED <<store, storeOp>>
    /\ wizardIdle

\* The user dismisses the alert; until then the native dialog covers the
\* screen and none of its controls can be pressed.
DismissAlert ==
    /\ wizard.alert # ""
    /\ wizard' = [wizard EXCEPT !.alert = ""]
    /\ UNCHANGED <<store, storeOp>>
    /\ wizardIdle

\* handleSuccessModalClose
HandleSuccessModalClose ==
    /\ wizard.showSuccessModal
    /\ wizard' = [wizard EXCEPT !.showSuccessModal = FALSE]
    /\ UNCHANGED <<store, storeOp>>
    /\ wizardIdle

Titles == {<<>>, <<" ", " ", " ">>, <<"H", "i">>, <<"C", "a", "l", "l">>}

WizardNext ==
    \/ Tick
    \/ \E title \in Titles : UpdateFormData([title |-> title])
    \/ \E t \in 0..MaxTime : UpdateFormData([scheduledDate |-> DateValue(t)])
    \/ \E voicePersona \in {"friendly", "professional"} :
            UpdateFormData([voicePersona |-> voicePersona])
    \/ \E fields \in {{}, {"phone"}, {"email"}} :
            UpdateFormData([selectedProfileFields |-> fields])
    \/ \E value \in {"", "5550100"} : UpdateAdditionalData("phone", value)
    \/ NextStep
    \/ PrevStep
    \/ \E thrown \in BOOLEAN : HandleSubmit(thrown)
    \/ SubmitHapticsDone
    \/ SubmitHapticsFails
    \/ ErrorHapticsSettles
    \/ DismissAlert
    \/ HandleSuccessModalClose

SpecWizard == Init /\ [][WizardNext]_vars

\* The claim's reading of "validation of the current step succeeds" at the
\* current moment, for the step the wizard is on.
StepIsValid ==
    LET f == wizard.formData
        title == f.title
    IN  CASE wizard.currentStep = 0 ->
                /\ \E i \in 1..Len(title) : title[i] # " "
                /\ Len(title) >= 3
          [] wizard.currentStep = 1 -> f.scheduledDate.t > now
          [] wizard.currentStep = 2 -> f.voicePersona # ""
          [] wizard.currentStep = 3 ->
                /\ f.selectedProfileFields # {}
                /\ "phone" \in f.selectedProfileFields => f.additionalData.phone # ""
          [] OTHER -> TRUE

\* A step of the wizard in which a submission completes successfully.
SubmissionSucceeds == wizard.pc = "success" /\ wizard'.pc = "idle"

\* C19: the step index of the five-step wizard stays within 0..4; it grows
\* only by 1 and only when the current step is valid at that moment; going
\* back lowers it by 1 and leaves the form data unchanged; a successful
\* submission resets the form data to its initial values and the step to 0.
C19_WizardSteps ==
    [][/\ wizard'.currentStep \in 0..4
       /\ wizard'.currentStep > wizard.currentStep
            => wizard'.currentStep = wizard.currentStep + 1 /\ StepIsValid
       /\ (wizard'.currentStep < wizard.currentStep /\ ~SubmissionSucceeds)
            => /\ wizard'.currentStep = wizard.currentStep - 1
               /\ wizard'.formData = wizard.formData
       /\ SubmissionSucceeds
            => /\ wizard'.currentStep = 0
               /\ wizard'.formData =
                    [title |-> <<>>, scheduledDate |-> [isDate |-> TRUE, t |-> now'],
                     voicePersona |-> "friendly", selectedProfileFields |-> {},
                     additionalData |-> [phone |-> ""]]]_vars

\* A submission has succeeded after the wizard was walked through its five
\* steps: the event is stored and the wizard is back at its start.
C19_Witness ==
    /\ wizard.showSuccessModal
    /\ wizard.currentStep = 0
    /\ wizard.formData.title = <<>>
    /\ Len(store.events) >= 1
    /\ storeOp.name = "addEventFromForm"

----------------------------------------------------------------------------
(* The Call Screen (unnamed/part_006): startCall, sendTestMessage and        *)
(* endCall, each split at its awaits.  The handlers call the Call Store and  *)
(* the metrics hook; playText is not awaited and changes only the audio      *)
(* player.  One run of each handler is followed at a time.                   *)

\* The greeting of the friendly persona, the demonstration user message and
\* a reply, as sequences of characters.
Greeting == <<"H", "i", " ", "t", "h", "e", "r", "e", "!">>
UserText == <<"C", "a", "n", " ", "y", "o", "u", " ", "h", "e", "l", "p", "?">>
ReplyText == <<"S", "u", "r", "e", ".">>

greetingMessage ==
    [content |-> Greeting, sender |-> "ai", sentiment |-> "positive", confidence |-> 9]
userMessage ==
    [content |-> UserText, sender |-> "user", sentiment |-> "neutral", confidence |-> 8]
aiMessage(data) ==
    [content |-> data, sender |-> "ai", sentiment |-> "positive", confidence |-> 9]

\* The hook's recordMessage: setMetrics with the updater, setLastMessageTime.
Record(h, message, at) ==
    [metrics |-> recordMessage(h.metrics, message, at),
     lastMessageTime |-> at,
     recorded |-> Append(h.recorded, [message |-> message, at |-> at])]

\* getWordsPerMinute
getWordsPerMinute(m, at) ==
    IF at - m.startTime > 0 THEN Ratio(m.totalWords, at - m.startTime) ELSE Ratio(0, 1)

\* What the utilities of utils/api.ts hand the screen: an envelope, with data
\* or without; none of them throws.
Envelope(success, data) ==
    [threw |-> FALSE, success |-> success, error |-> IF success THEN "" ELSE "failed",
     data |-> data]

SentimentEnvelopes ==
    {Envelope(TRUE, <<[sentiment |-> "negative", confidence |-> 7, emotions |-> <<>>]>>),
     Envelope(FALSE, <<NeutralSentiment>>)}

ReplyEnvelopes == {Envelope(TRUE, <<ReplyText>>), Envelope(TRUE, <<<<>>>>), Envelope(FALSE, <<>>)}

SummaryEnvelopes ==
    {Envelope(TRUE, <<[summary |-> "{summary}", actionItems |-> <<"follow up">>]>>),
     Envelope(FALSE, <<>>)}

\* result.success && result.data, for data that is an object
HasData(envelope) == envelope.success /\ envelope.data # <<>>

\* aiResponse.success && aiResponse.data: the empty string is falsy
HasText(envelope) == HasData(envelope) /\ envelope.data[1] # <<>>

\* The outcomes of an awaited promise of the platform (haptics, audio,
\* notifications).
Settled == {"resolved", "rejected"}

\* upcomingEvents[0]
nextEvent == LET upcomingEvents == getUpcomingEvents(store, now)
             IN  IF upcomingEvents = <<>> THEN <<>> ELSE <<upcomingEvents[1]>>

callIdle == UNCHANGED <<serverVars, rt, pu, storeOp, modal, wizard>>

\* The user completes the profile (User Store).
CompleteProfile ==
    /\ ~screen.profile
    /\ screen' = [screen EXCEPT !.profile = TRUE]
    /\ UNCHANGED <<store, hook>>
    /\ callIdle

\* startCall up to its await; the button is disabled without a next event.
StartCall ==
    /\ screen.startCall.pc = "idle"
    /\ ~screen.isCallActive
    /\ nextEvent # <<>>
    /\ store.made + 2 <= MaxIds
    /\ screen' = IF ~screen.profile
                 THEN [screen EXCEPT !.alert = "Profile Required"]
                 ELSE [screen EXCEPT !.startCall =
                            [pc |-> "impact", threw |-> FALSE, seen |-> nextEvent]]
    /\ UNCHANGED <<store, hook>>
    /\ callIdle

\* startCall after await Haptics.impactAsync.
StartCallSettles(outcome) ==
    /\ screen.startCall.pc = "impact"
    /\ IF outcome = "rejected"
       THEN /\ screen' = [screen EXCEPT !.startCall = [NoRun EXCEPT !.threw = TRUE],
                                        !.unhandled = @ \cup {"startCall"}]
            /\ UNCHANGED <<store, hook>>
       ELSE /\ screen' = [screen EXCEPT !.startCall = NoRun, !.isCallActive = TRUE,
                                        !.callStartTime = <<now>>]
            /\ store' = addMessage(startSession(store, screen.startCall.seen[1].id, now),
                                   greetingMessage, now)
            /\ hook' = Record(FreshHook(now), greetingMessage, now)
    /\ callIdle

\* sendTestMessage up to its first await; the button is disabled while
\* processing.
SendTestMessage ==
    /\ screen.sendTestMessage.pc = "idle"
    /\ store.currentSession # <<>> /\ screen.profile /\ ~screen.isProcessing
    /\ store.made + 2 <= MaxIds
    /\ screen' = [screen EXCEPT
                    !.isProcessing = TRUE,
                    !.sendTestMessage =
                        [pc |-> "analyzeSentiment", threw |-> FALSE,
                         seen |-> <<[metrics |-> hook.metrics,
                                     messages |-> store.currentSession[1].messages]>>]]
    /\ store' = addMessage(store, userMessage, now)
    /\ hook' = Record(hook, userMessage, now)
    /\ callIdle

\* sendTestMessage after await analyzeSentiment(userMessage.content).
UserSentimentReturns(sentimentResult) ==
    /\ screen.sendTestMessage.pc = "analyzeSentiment"
    /\ hook' = IF HasData(sentimentResult)
               THEN Record(hook, [userMessage EXCEPT
                                    !.sentiment = sentimentResult.data[1].sentiment,
                                    !.confidence = sentimentResult.data[1].confidence], now)
               ELSE hook
    /\ screen' = [screen EXCEPT !.sendTestMessage.pc = "generateAIResponse"]
    /\ UNCHANGED store
    /\ callIdle

\* sendTestMessage after await generateAIResponse: without data the finally
\* block ends the run.
ReplyReturns(aiResponse) ==
    /\ screen.sendTestMessage.pc = "generateAIResponse"
    /\ IF HasText(aiResponse)
       THEN /\ store' = addMessage(store, aiMessage(aiResponse.data[1]), now)
            /\ hook' = Record(hook, aiMessage(aiResponse.data[1]), now)
            /\ screen' = [screen EXCEPT
                            !.sendTestMessage.pc = "analyzeSentiment(ai)",
                            !.sendTestMessage.seen =
                                <<Spread(@[1], [reply |-> aiResponse.data[1]])>>]
       ELSE /\ screen' = [screen EXCEPT !.sendTestMessage = NoRun, !.isProcessing = FALSE]
            /\ UNCHANGED <<store, hook>>
    /\ callIdle

\* sendTestMessage after await analyzeSentiment(aiResponse.data), to its end;
\* the getters are those of the render the run began in.
AiSentimentReturns(aiSentimentResult) ==
    /\ screen.sendTestMessage.pc = "analyzeSentiment(ai)"
    /\ LET seen == screen.sendTestMessage.seen[1]
       IN  /\ hook' = IF HasData(aiSentimentResult)
                      THEN Record(hook, [aiMessage(seen.reply) EXCEPT
                                    !.sentiment = aiSentimentResult.data[1].sentiment,
                                    !.confidence = aiSentimentResult.data[1].confidence], now)
                      ELSE hook
           /\ store' = updateSessionMetrics(store,
                            [averageResponseTime |-> getAverageResponseTime(seen.metrics),
                             wordsPerMinute |-> getWordsPerMinute(seen.metrics, now),
                             sentimentScore |-> getAverageSentiment(seen.metrics),
                             messageCount |-> Len(seen.messages) + 2])
    /\ screen' = [screen EXCEPT !.sendTestMessage = NoRun, !.isProcessing = FALSE]
    /\ callIdle

\* endCall up to its first await, which precedes the try block.
EndCall ==
    /\ screen.endCall.pc = "idle"
    /\ store.currentSession # <<>> /\ screen.profile
    /\ screen' = [screen EXCEPT !.isProcessing = TRUE,
                                !.endCall = [pc |-> "impact", threw |-> FALSE, seen |-> <<>>]]
    /\ UNCHANGED <<store, hook>>
    /\ callIdle

\* The catch block of endCall up to its await.
EndCallCatch(s) == [s EXCEPT !.endCall.pc = "catch", !.endCall.threw = TRUE]

\* The finally block of endCall, and the end of the run.
EndCallFinally(s) == [s EXCEPT !.endCall.pc = "idle", !.isProcessing = FALSE]

\* endCall after one of its awaits of the platform has settled.
EndCallSettles(outcome) ==
    /\ screen.endCall.pc \in {"impact", "stopAudio", "sendCallEndNotification",
                              "success", "catch"}
    /\ CASE screen.endCall.pc = "impact" ->
                /\ screen' = IF outcome = "rejected"
                             THEN [screen EXCEPT !.endCall.pc = "idle",
                                                 !.endCall.threw = TRUE,
                                                 !.unhandled = @ \cup {"endCall"}]
                             ELSE [screen EXCEPT !.endCall.pc = "stopAudio"]
                /\ UNCHANGED store
         [] screen.endCall.pc = "stopAudio" ->
                /\ screen' = IF outcome = "rejected"
                             THEN EndCallCatch(screen)
                             ELSE [screen EXCEPT !.endCall.pc = "generateCallSummary"]
                /\ UNCHANGED store
         [] screen.endCall.pc = "sendCallEndNotification" ->
                IF outcome = "rejected"
                THEN /\ screen' = EndCallCatch(screen)
                     /\ UNCHANGED store
                ELSE /\ store' = endSession(store, now)
                     /\ screen' = [screen EXCEPT !.endCall.pc = "success",
                                                 !.isCallActive = FALSE,
                                                 !.callStartTime = <<>>]
         [] screen.endCall.pc = "success" ->
                /\ screen' = IF outcome = "rejected"
                             THEN EndCallCatch(screen)
                             ELSE EndCallFinally([screen EXCEPT !.alert = "Call Completed!"])
                /\ UNCHANGED store
         [] screen.endCall.pc = "catch" ->
                /\ screen' = IF outcome = "rejected"
                             THEN EndCallFinally([screen EXCEPT
                                                    !.unhandled = @ \cup {"endCall"}])
                             ELSE EndCallFinally([screen EXCEPT !.alert = "Error"])
                /\ UNCHANGED store
    /\ UNCHANGED hook
    /\ callIdle

\* endCall after await generateCallSummary(messages).
SummaryReturns(summaryResult) ==
    /\ screen.endCall.pc = "generateCallSummary"
    /\ store' = IF HasData(summaryResult)
                THEN setSessionSummary(store, summaryResult.data[1].summary,
                                       summaryResult.data[1].actionItems)
                ELSE store
    /\ screen' = [screen EXCEPT !.endCall.pc = "sendCallEndNotification"]
    /\ UNCHANGED hook
    /\ callIdle

CallNext ==
    \/ Tick
    \/ CompleteProfile
    \/ StartCall
    \/ \E outcome \in Settled : StartCallSettles(outcome)
    \/ SendTestMessage
    \/ \E sentimentResult \in SentimentEnvelopes : UserSentimentReturns(sentimentResult)
    \/ \E aiResponse \in ReplyEnvelopes : ReplyReturns(aiResponse)
    \/ \E aiSentimentResult \in SentimentEnvelopes : AiSentimentReturns(aiSentimentResult)
    \/ EndCall
    \/ \E outcome \in Settled : EndCallSettles(outcome)
    \/ \E summaryResult \in SummaryEnvelopes : SummaryReturns(summaryResult)

\* The app is started with one scheduled event in its persisted store.
CallInit ==
    /\ now = 0
    /\ scheduledCalls = <<>>
    /\ nextId = 1
    /\ procs = [p \in ProcIds |-> IdleProc]
    /\ sessions = <<>>
    /\ dialed = [id \in CallIds |-> 0]
    /\ req = NoReq
    /\ res = NoRes
    /\ variant = "plain"
    /\ rt = NoRetry
    /\ twiml = NoMarkup
    /\ pu = NoProviderCall
    /\ store = [EmptyStore EXCEPT
                    !.events = <<[id |-> 0, scheduledTime |-> DateValue(MaxTime + 1),
                                  status |-> "scheduled"]>>]
    /\ storeOp = NoStoreOp
    /\ hook = FreshHook(0)
    /\ modal = FreshModal(0)
    /\ wizard = FreshWizard(0)
    /\ screen = FreshScreen

SpecCall == CallInit /\ [][CallNext]_vars

\* Every awaited operation settles: the runtime resumes a handler whose
\* promise has resolved or rejected.
FairSpecCall ==
    /\ SpecCall
    /\ WF_vars(\E outcome \in Settled : StartCallSettles(outcome))
    /\ WF_vars(\E sentimentResult \in SentimentEnvelopes : UserSentimentReturns(sentimentResult))
    /\ WF_vars(\E aiResponse \in ReplyEnvelopes : ReplyReturns(aiResponse))
    /\ WF_vars(\E aiSentimentResult \in SentimentEnvelopes :
                    AiSentimentReturns(aiSentimentResult))
    /\ WF_vars(\E outcome \in Settled : EndCallSettles(outcome))
    /\ WF_vars(\E summaryResult \in SummaryEnvelopes : SummaryReturns(summaryResult))

\* A run of sendTestMessage or endCall ends in this step.
RunEnds(handler) == screen[handler].pc # "idle" /\ screen'[handler].pc = "idle"

\* C20: a run of sendTestMessage or endCall that has set the processing flag
\* eventually clears it, whatever the outcomes of the operations it awaits;
\* a run in which an operation has thrown ends with the error alert shown
\* and no rejection propagated.
C20_ProcessingFlagCleared ==
    /\ screen.isProcessing ~> ~screen.isProcessing
    /\ [][\A handler \in {"sendTestMessage", "endCall"} :
            (RunEnds(handler) /\ screen'[handler].threw)
                => /\ screen'.alert = "Error"
                   /\ handler \notin screen'.unhandled]_vars

----------------------------------------------------------------------------
(* Further properties of the backend session service and the pipeline *)

\* The message `m` is the user turn of the chatWithSession call made in this
\* step on session k.
IsUserTurnOfCall(m, k) ==
    /\ req'.op = "chatWithSession"
    /\ req'.body.sessionId = k
    /\ m = Message("user", <<req'.body.userMessage>>, k)

\* The message `m` is the assistant turn of a call on session k that returns
\* in this step.
IsAssistantTurnOfCall(m, k) ==
    /\ m.role = "assistant"
    /\ res'.status = "returned"
    /\ \E p \in ProcIds :
        procs[p].kind = "chat" /\ procs[p].sid = k /\ procs[p].pc = "chat1"
            /\ procs'[p] = IdleProc

\* C21: in the context-seeded variant the system message of a session is the
\* one built from the appointment data of the call that created it; a later
\* call on the same id, whatever its appointment data, leaves the system
\* message and everything already in the history unchanged and appends one
\* user turn when it begins and one assistant turn when it returns.
C21_SystemMessageSeededOnce ==
    [][variant = "context" =>
        /\ \A k \in DOMAIN sessions' \ DOMAIN sessions :
            /\ req'.op = "chatWithSession" /\ req'.body.sessionId = k
            /\ sessions'[k][1] =
                [role |-> "system",
                 content |-> <<"You are a now connected to a call", req'.body.userdata>>,
                 under |-> k]
        /\ \A k \in DOMAIN sessions :
            /\ k \in DOMAIN sessions'
            /\ sessions'[k][1] = sessions[k][1]
            /\ \/ sessions'[k] = sessions[k]
               \/ /\ Len(sessions'[k]) = Len(sessions[k]) + 1
                  /\ SubSeq(sessions'[k], 1, Len(sessions[k])) = sessions[k]
                  /\ LET m == sessions'[k][Len(sessions'[k])]
                     IN  IsUserTurnOfCall(m, k) \/ IsAssistantTurnOfCall(m, k)
      ]_vars

\* A session seeded with one appointment has been called again with another:
\* the later call's user turn is in the history under the first system message.
C21_Witness ==
    /\ variant = "context"
    /\ req.op = "chatWithSession"
    /\ req.body.userdata = "garage"
    /\ req.body.sessionId \in DOMAIN sessions
    /\ LET h == sessions[req.body.sessionId]
       IN  /\ h[1].content = <<"You are a now connected to a call", "dentist">>
           /\ Len(h) = 4
           /\ h[3].role = "assistant"

\* C22: a session history only grows: every session stays, every message
\* already in a history stays at its position, and the first message of
\* every history is a system message.
C22_HistoriesOnlyGrow ==
    [][/\ \A k \in DOMAIN sessions :
            /\ k \in DOMAIN sessions'
            /\ Len(sessions'[k]) >= Len(sessions[k])
            /\ \A i \in 1..Len(sessions[k]) : sessions'[k][i] = sessions[k][i]
       /\ \A k \in DOMAIN sessions' :
            /\ sessions'[k] # <<>>
            /\ sessions'[k][1].role = "system"
      ]_vars

\* A history of the plain variant has grown through a whole call: the user
\* turn, the reply, the fixed follow-up and its reply after the system message.
C22_Witness ==
    /\ variant = "plain"
    /\ \E k \in DOMAIN sessions :
        /\ Len(sessions[k]) = 5
        /\ [i \in 1..5 |-> sessions[k][i].role]
                = <<"system", "user", "assistant", "user", "assistant">>
        /\ sessions[k][4].content = <<FollowUp>>

----------------------------------------------------------------------------
(* Sweeps and manual triggers racing for the same call *)

\* One run slot more than the pipeline specification has: a cron tick can
\* fire while an earlier tick or a trigger request awaits its pipeline.
RaceProcIds == 1..(MaxProcs + 1)

RaceInit ==
    /\ now = 0
    /\ scheduledCalls = <<>>
    /\ nextId = 1
    /\ procs = [p \in RaceProcIds |-> IdleProc]
    /\ sessions = <<>>
    /\ dialed = [id \in CallIds |-> 0]
    /\ req = NoReq
    /\ res = NoRes
    /\ variant = "plain"
    /\ rt = NoRetry
    /\ twiml = NoMarkup
    /\ ClientInit

RaceNext ==
    \/ Tick
    \/ \E purpose \in Purposes, sdt \in DateTimeInputs :
            ScheduleCall(ValidPhone, "Ada", purpose, sdt)
    \/ \E id \in CallIds : DeleteScheduledCall(id)
    \/ \E p \in RaceProcIds, id \in CallIds : TriggerScheduledCall(p, id)
    \/ \E p \in RaceProcIds : CronSweep(p)
    \/ \E p \in RaceProcIds : Completion(p, "reply")
    \/ \E p \in RaceProcIds : CompletionFails(p)
    \/ \E p \in RaceProcIds : AudioReady(p)
    \/ \E p \in RaceProcIds : AudioFails(p)
    \/ \E p \in RaceProcIds : CallCreated(p)
    \/ \E p \in RaceProcIds : CallCreateFails(p)

SpecRace == RaceInit /\ [][RaceNext]_vars

\* The runs of the pipeline attached to call `id`.
RunsOf(ps, id) == {p \in DOMAIN ps : ps[p].kind \in {"sweep", "trigger"} /\ ps[p].call = id}

\* C23: for every call id the pipeline is started at most once, whatever the
\* interleaving of cron ticks and trigger requests: a run is attached to a
\* call only while the call is pending, attaching it makes the call
\* processing, a call that left pending never becomes pending again, no two
\* runs are attached to one call, and calls.create is invoked at most once
\* for it.
C23_PipelineStartedOnce ==
    [][\A id \in CallIds :
          /\ dialed'[id] <= 1
          /\ Cardinality(RunsOf(procs', id)) <= 1
          /\ \A p \in DOMAIN procs :
                (p \in RunsOf(procs', id) /\ p \notin RunsOf(procs, id))
                    => /\ id \in DOMAIN scheduledCalls
                       /\ scheduledCalls[id].status = "pending"
                       /\ scheduledCalls'[id].status = "processing"
          /\ (id \in DOMAIN scheduledCalls /\ id \in DOMAIN scheduledCalls'
                /\ scheduledCalls[id].status # "pending")
                => scheduledCalls'[id].status # "pending"
      ]_vars

\* A trigger request is refused for a call that a sweep is processing, after
\* the telephony call was requested.
C23_Witness ==
    /\ req.op = "POST /scheduled-calls/:id/trigger"
    /\ res.code = 400
    /\ dialed[req.id] = 1
    /\ \E p \in DOMAIN procs :
          /\ procs[p].kind = "sweep"
          /\ procs[p].call = req.id
          /\ procs[p].pc = "dial"

----------------------------------------------------------------------------
(* Refused scheduling requests and the registry *)

\* C24: a POST /schedule-call that is answered anything other than 201 leaves
\* the registry of scheduled calls as it was, a request whose
\* scheduledDateTime does not parse included.
C24_RefusedRequestStoresNothing ==
    [][(req'.op = ScheduleOp /\ res'.code # 201)
          => scheduledCalls' = scheduledCalls
      ]_vars

----------------------------------------------------------------------------
(* The answer of a manual trigger *)

\* The trigger runs that end in this step.
EndingTriggers == {p \in DOMAIN procs : procs[p].kind = "trigger" /\ procs'[p].kind # "trigger"}

\* C25: a trigger request on a pending call is not refused and starts the
\* pipeline; when its run ends the request is answered 200 with the status
\* the call then has, which is completed exactly when the telephony provider
\* returned a call id and failed otherwise (script, audio or call placement
\* failed); no trigger request is answered 500.
C25_TriggerAnswers200 ==
    [][/\ (req'.op = TriggerOp /\ req'.id \in DOMAIN scheduledCalls
              /\ scheduledCalls[req'.id].status = "pending")
            => /\ res' = NoRes
               /\ \E p \in DOMAIN procs :
                     p \notin EndingTriggers /\ procs'[p].kind = "trigger"
                        /\ procs'[p].call = req'.id /\ procs[p].kind = "idle"
       /\ \A p \in EndingTriggers :
            LET id == procs[p].call
            IN  /\ res'.code = 200
                /\ res'.ids = {id}
                /\ res'.status \in {"completed", "failed"}
                /\ res'.status = scheduledCalls'[id].status
                /\ res'.status = "completed" <=> IsSet(scheduledCalls'[id].callSid)
       /\ (req'.op = TriggerOp \/ EndingTriggers # {}) => res'.code # 500
      ]_vars

\* A triggered call whose placement the telephony provider refused: the
\* request was answered 200 with status failed.
C25_Witness ==
    /\ req.op = "none"
    /\ res.code = 200
    /\ res.status = "failed"
    /\ \E id \in res.ids :
          /\ dialed[id] = 1
          /\ scheduledCalls[id].status = "failed"
          /\ IsSet(scheduledCalls[id].audioBuffer)

----------------------------------------------------------------------------
(* Script generation for several scheduled calls *)

\* The registry after MaxCalls + 1 accepted POST /schedule-call requests of
\* different users, all scheduled for the same later time.
ScriptCallIds == 1..(MaxCalls + 1)

ScriptUser(id) == IF id = 1 THEN "Ada" ELSE "Grace"

ScriptPurpose(id) == IF id = 1 THEN "book a table" ELSE "cancel the gym membership"

ScriptsInit ==
    /\ now = 0
    /\ scheduledCalls =
          [id \in ScriptCallIds |->
              NewScheduledCall(ValidPhone, ScriptUser(id), ScriptPurpose(id),
                               ValidDate(MaxTime))]
    /\ nextId = MaxCalls + 2
    /\ procs = [p \in ProcIds |-> IdleProc]
    /\ sessions = <<>>
    /\ dialed = [id \in ScriptCallIds |-> 0]
    /\ req = NoReq
    /\ res = NoRes
    /\ variant = "plain"
    /\ rt = NoRetry
    /\ twiml = NoMarkup
    /\ ClientInit

ScriptsNext ==
    \/ Tick
    \/ \E p \in ProcIds, id \in ScriptCallIds : TriggerScheduledCall(p, id)
    \/ \E p \in ProcIds : CronSweep(p)
    \/ \E p \in ProcIds : Completion(p, "reply")
    \/ \E p \in ProcIds : CompletionFails(p)
    \/ \E p \in ProcIds : AudioReady(p)
    \/ \E p \in ProcIds : AudioFails(p)
    \/ \E p \in ProcIds : CallCreated(p)
    \/ \E p \in ProcIds : CallCreateFails(p)

SpecScripts == ScriptsInit /\ [][ScriptsNext]_vars

\* The pipeline run `p` issues a chat-completion request in this step.
IssuesScriptRequest(p) ==
    /\ procs'[p].kind \in {"sweep", "trigger"}
    /\ procs'[p].pc \in {"chat1", "chat2"}
    /\ (procs[p].pc # procs'[p].pc \/ procs[p].call # procs'[p].call)

\* C26: the message list sent to the chat-completion provider for the script
\* of one scheduled call holds only that call's user information and
\* purpose: every prompt in it is the prompt of that call, and the only
\* assistant text in it is the first answer of this very run (third message
\* of the follow-up request).
C26_ScriptRequestOwnDataOnly ==
    [][\A p \in DOMAIN procs :
          IssuesScriptRequest(p)
            => LET sent == sessions'[ScriptSession]
                   own == scheduledCalls'[procs'[p].call]
               IN  \A i \in 1..Len(sent) :
                      /\ (sent[i].role = "user" /\ sent[i].content # <<FollowUp>>)
                            => sent[i].content = ScriptPrompt(own)
                      /\ sent[i].role = "assistant"
                            => (procs'[p].pc = "chat2" /\ i = 3)
      ]_vars

----------------------------------------------------------------------------
(* Turn order in a session history *)

\* No chatWithSession invocation on session `k` is awaiting the provider.
Quiet(k) == \A p \in DOMAIN procs : procs[p].sid # k

\* C27: once the chatWithSession invocations on a session id have all
\* returned or thrown, the history after its system message alternates
\* strictly: a user turn at every even position, each followed at once by
\* the assistant reply generated for it.
C27_TurnsAlternate ==
    \A k \in DOMAIN sessions :
        Quiet(k)
            => /\ Len(sessions[k]) % 2 = 1
               /\ \A i \in 2..Len(sessions[k]) :
                     sessions[k][i].role = IF i % 2 = 0 THEN "user" ELSE "assistant"

----------------------------------------------------------------------------
(* Started sessions of the Call Store *)

\* The ids of the sessions the store `s` holds, current or ended.
HeldSessionIds(s) ==
    {s.sessions[i].id : i \in 1..Len(s.sessions)}
        \cup {s.currentSession[i].id : i \in 1..Len(s.currentSession)}

\* C28: no started session is lost: a session the store holds, as its
\* currentSession or in sessions, is still held after every store operation,
\* and every element of sessions has an endTime.
C28_NoSessionLost ==
    [][/\ HeldSessionIds(store) \subseteq HeldSessionIds(store')
       /\ \A i \in 1..Len(store'.sessions) : store'.sessions[i].endTime # <<>>
      ]_vars

----------------------------------------------------------------------------
(* The metrics hook against the messages of the current session *)

\* The words of the messages of a session, counted as recordMessage counts.
SessionWords(messages) ==
    SumSeq([i \in 1..Len(messages) |-> SplitLength(messages[i].content)])

\* C29: while a call started on the Call Screen is in progress and no
\* startCall or sendTestMessage run is under way, the metrics hook has
\* recorded each message of the current session exactly once: messageCount
\* is the number of its messages and totalWords their total word count.
C29_EachMessageRecordedOnce ==
    (/\ store.currentSession # <<>>
     /\ screen.isCallActive
     /\ screen.startCall.pc = "idle"
     /\ screen.sendTestMessage.pc = "idle")
        => /\ hook.metrics.messageCount = Len(store.currentSession[1].messages)
           /\ hook.metrics.totalWords = SessionWords(store.currentSession[1].messages)

----------------------------------------------------------------------------
(* The audio player hook (hooks/useExpoAudioPlayer.ts): playText and         *)
(* stopAudio.  Each await is a step; the promises of the platform and of     *)
(* the voice service resolve or reject.                                      *)

audioIdle == UNCHANGED <<serverVars, rt, pu, store, storeOp, hook, modal, wizard>>

PlayIds == 1..MaxPlays

\* The playText calls made so far.
Made(pl) == 1..Len(pl.plays)

\* stopAudio has returned: the playText calls made so far precede a
\* completed stopAudio.
StopCompleted(pl) ==
    [pl EXCEPT !.stop = [pc |-> "idle", sound |-> 0],
               !.plays = [i \in Made(pl) |-> [pl.plays[i] EXCEPT !.early = TRUE]]]

\* The catch block of playText up to its await.
PlayCatch(pl, i) == [pl EXCEPT !.state.isLoading = FALSE, !.plays[i].pc = "catch"]

\* playText up to its first await, which precedes the try block.
PlayText(i) ==
    /\ i = Len(screen.player.plays) + 1
    /\ screen' = [screen EXCEPT !.player.state.isLoading = TRUE,
                                !.player.plays = Append(@, NewPlay)]
    /\ audioIdle

\* playText after one of its awaits has settled.
PlaySettles(i, outcome) ==
    LET pl == screen.player
        pc == pl.plays[i].pc
    IN  /\ i \in Made(pl)
        /\ pc \in {"impact", "setAudioMode", "synthesizeVoice", "createAsync",
                   "playAsync", "catch"}
        /\ screen' =
             [screen EXCEPT !.player =
                CASE pc = "impact" ->
                        IF outcome = "rejected" THEN [pl EXCEPT !.plays[i].pc = "threw"]
                        ELSE [pl EXCEPT !.plays[i].pc = "setAudioMode"]
                  [] pc = "setAudioMode" ->
                        IF outcome = "rejected" THEN PlayCatch(pl, i)
                        ELSE [pl EXCEPT !.plays[i].pc = "synthesizeVoice"]
                  [] pc = "synthesizeVoice" ->
                        IF outcome = "rejected" THEN PlayCatch(pl, i)
                        ELSE [pl EXCEPT !.plays[i].pc = "createAsync"]
                  [] pc = "createAsync" ->
                        \* setState({isLoading: false, isPlaying: true,
                        \* currentSound: sound}) and sound.playAsync() is called
                        IF outcome = "rejected" THEN PlayCatch(pl, i)
                        ELSE [pl EXCEPT !.state = [isPlaying |-> TRUE, isLoading |-> FALSE,
                                                   currentSound |-> i],
                                        !.plays[i].sound = "playing",
                                        !.plays[i].pc = "playAsync"]
                  [] pc = "playAsync" ->
                        \* setOnPlaybackStatusUpdate is reached only when
                        \* playAsync resolved
                        IF outcome = "rejected"
                        THEN PlayCatch([pl EXCEPT !.plays[i].sound =
                                            IF @ = "playing" THEN "loaded" ELSE @], i)
                        ELSE [pl EXCEPT !.plays[i].pc = "done"]
                  [] pc = "catch" -> [pl EXCEPT !.plays[i].pc = "ended"]]
        /\ audioIdle

\* The status callback with didJustFinish, set once playAsync has resolved.
SoundFinishes(i) ==
    /\ i \in Made(screen.player)
    /\ screen.player.plays[i].pc = "done"
    /\ screen.player.plays[i].sound = "playing"
    /\ screen' = [screen EXCEPT !.player.state.isPlaying = FALSE,
                                !.player.state.currentSound = 0,
                                !.player.plays[i].sound = "unloaded"]
    /\ audioIdle

\* stopAudio up to its first await; with no currentSound it returns at once.
StopAudio ==
    /\ screen.player.stop.pc = "idle"
    /\ LET pl == screen.player
       IN  screen' = [screen EXCEPT !.player =
                        IF pl.state.currentSound = 0 THEN StopCompleted(pl)
                        ELSE [pl EXCEPT !.stop.pc = "stopAsync",
                                        !.stop.sound = pl.state.currentSound]]
    /\ audioIdle

\* stopAudio after stopAsync or unloadAsync of the captured sound settled; a
\* rejection propagates to the caller.
StopSettles(outcome) ==
    LET pl == screen.player
        s == pl.stop.sound
    IN  /\ pl.stop.pc \in {"stopAsync", "unloadAsync"}
        /\ screen' =
             [screen EXCEPT !.player =
                IF outcome = "rejected"
                THEN [pl EXCEPT !.stop.pc = "idle", !.stop.sound = 0]
                ELSE IF pl.stop.pc = "stopAsync"
                THEN [pl EXCEPT !.stop.pc = "unloadAsync",
                                !.plays[s].sound = IF @ = "playing" THEN "stopped" ELSE @]
                ELSE StopCompleted([pl EXCEPT !.plays[s].sound = "unloaded",
                                              !.state.isPlaying = FALSE,
                                              !.state.currentSound = 0])]
        /\ audioIdle

AudioNext ==
    \/ \E i \in PlayIds : PlayText(i)
    \/ \E i \in PlayIds, outcome \in Settled : PlaySettles(i, outcome)
    \/ \E i \in PlayIds : SoundFinishes(i)
    \/ StopAudio
    \/ \E outcome \in Settled : StopSettles(outcome)

SpecAudio == Init /\ [][AudioNext]_vars

\* C30: once a stopAudio has completed, no sound of a playText call made
\* before it is playing, then or later.
C30_StoppedAudioStaysSilent ==
    \A i \in Made(screen.player) :
        screen.player.plays[i].early => screen.player.plays[i].sound # "playing"

====
